---- MODULE Spec2Model ----
(***************************************************************************)
(* Reference-graph resolution and manifest assembly of rddms_admin_ui:     *)
(*   app/tools/resqml_graph.py  bfs, _extract_refs, _get_resource          *)
(*   app/osdu.py                gather_selected_uris_with_refs,            *)
(*                              uri_from_ref, _type_from_content_type,     *)
(*                              list_all_resource_uris, build_manifest     *)
(*   app/main.py                dataspaces_manifest                        *)
(* Strings are TLA+ strings; the Python string operations the code uses    *)
(* (split, strip, startswith, find, f-strings) are operators over them.    *)
(***************************************************************************)
EXTENDS Integers, Sequences, FiniteSets, TLC

(***************************************************************************)
(* Bounds of the model.                                                    *)
(***************************************************************************)
MaxNodes == 3
MaxEdges == 3
MaxServed == 2
MaxDepth == 2
MaxFailures == 1
MaxSel == 2
MaxRows == 2
MaxList == 3

(***************************************************************************)
(* Python string operations.                                               *)
(***************************************************************************)
Min(a, b) == IF a <= b THEN a ELSE b

\* s.startswith(p)
StartsWith(s, p) == Len(s) >= Len(p) /\ SubSeq(s, 1, Len(p)) = p

\* s.find(p), 1-based; 0 where Python returns -1
Find(s, p) ==
    LET hits == { i \in 1..(Len(s) - Len(p) + 1) : SubSeq(s, i, i + Len(p) - 1) = p }
    IN  IF hits = {} THEN 0 ELSE CHOOSE i \in hits : \A j \in hits : i <= j

\* p in s
Contains(s, p) == Find(s, p) # 0

\* s.split(sep): the list of the parts between the occurrences of sep
RECURSIVE Split(_, _)
Split(s, sep) ==
    LET i == Find(s, sep)
    IN  IF i = 0 THEN << s >>
        ELSE << SubSeq(s, 1, i - 1) >> \o Split(SubSeq(s, i + Len(sep), Len(s)), sep)

\* s.strip() (blanks)
RECURSIVE Strip(_)
Strip(s) ==
    IF Len(s) = 0 THEN s
    ELSE IF SubSeq(s, 1, 1) = " " THEN Strip(SubSeq(s, 2, Len(s)))
    ELSE IF SubSeq(s, Len(s), Len(s)) = " " THEN Strip(SubSeq(s, 1, Len(s) - 1))
    ELSE s

\* the set of the elements of a sequence
Range(q) == { q[i] : i \in 1..Len(q) }

\* the sequences over S of length at most n
SeqUpTo(S, n) == UNION { [1..k -> S] : k \in 0..n }

(***************************************************************************)
(* The remote store: objects identified by uuid, each of one data object   *)
(* type, each holding DataObjectReference dicts {ContentType, UUID}.       *)
(***************************************************************************)
UuidNames == << "u1", "u2", "u3", "u4", "u5" >>
Uuids == { UuidNames[i] : i \in 1..MaxNodes }

\* obj_<Suffix> of the object with the i-th uuid; u3 is an EML common object
TypeSuffixes == << "obj_Grid2dRepresentation", "obj_LocalDepth3dCrs",
                   "obj_EpcExternalPartReference", "obj_Grid2dRepresentation",
                   "obj_LocalDepth3dCrs" >>
SuffixOf(u) == TypeSuffixes[CHOOSE i \in 1..Len(UuidNames) : UuidNames[i] = u]

IsEml(u) == SuffixOf(u) = "obj_EpcExternalPartReference"

\* the type path under which the store files the object
TypePathOf(u) == (IF IsEml(u) THEN "eml20." ELSE "resqml20.") \o SuffixOf(u)

\* the content type a DataObjectReference to the object carries
ContentTypeOf(u) ==
    (IF IsEml(u) THEN "application/x-eml+xml" ELSE "application/x-resqml+xml")
        \o ";version=2.0;type=" \o SuffixOf(u)

Dor(u) == [ContentType |-> ContentTypeOf(u), UUID |-> u]
Dors == { Dor(u) : u \in Uuids }

\* the store in which the objects hold the DORs of the list es of <<uuid, DOR>>
RECURSIVE StoreOf(_)
StoreOf(es) ==
    IF es = << >> THEN [u \in Uuids |-> << >>]
    ELSE LET s == StoreOf(SubSeq(es, 1, Len(es) - 1))
             e == es[Len(es)]
         IN  [s EXCEPT ![e[1]] = Append(@, e[2])]

\* the stores of the model: per object the DORs found in it, in walk order,
\* at most MaxEdges DORs in all
Stores == { StoreOf(es) : es \in SeqUpTo(Uuids \X Dors, MaxEdges) }

\* HTTP outcomes of one request; NoResponse is a timeout (a transport error,
\* no status code)
StatusOk == 200
NoResponse == 0
Statuses == { StatusOk, 401, 403, 404, 500, NoResponse }
IsHttpError(st) == st \in { 401, 403, 404, 500 }
IsCredentialFailure(st) == st \in { 401, 403 }

DsPath == "demo/Volve"

VARIABLES
    call,         \* the entry point the behaviour runs
    store,        \* bfs: the remote store's objects (uuid -> DORs)
    fetchLog,     \* the node fetches issued so far, <<type, uuid>> in order
    errs,         \* the non-success outcomes the node fetches have met
    failures,     \* how many node fetches have failed
    served,       \* how many DORs the remote has served to get_resource
    fetched,      \* gather: the objects get_resource has returned, in order
    depth,        \* bfs: depth argument
    seed,         \* bfs: <<typ, uuid>> argument
    queue,        \* bfs: deque of <<typ, uuid, d>>
    seen,         \* bfs: set of <<typ, uuid>>
    nodes,        \* bfs: keys of the nodes dict
    G,            \* bfs: nx.Graph, [nodes, edges]
    bpc,          \* bfs: "idle" | "loop" | "returned" | "raised"
    selections,   \* gather: list of <<typ, uuid>>
    include_refs, \* gather: include_refs argument
    gi,           \* gather: index of the selection the for loop is at
    uris,         \* gather: the uris list
    out,          \* gather: the returned list
    gpc,          \* gather: "idle" | "loop" | "returned" | "raised"
    bm,           \* build_manifest: arguments of a direct call
    bmpc,         \* build_manifest: "idle" | "called" | "returned" | "raised"
    requests,     \* the manifest-build and workflow requests sent, in order
    listed,       \* what list_all_resource_uris returned, if it was called
    h_uris,       \* dataspaces_manifest: its uris local
    hpc,          \* dataspaces_manifest: the stage it is at
    response,     \* dataspaces_manifest: the JSON response
    dedIn,        \* dedup: the input list and which dedup it goes to
    dedOnce,      \* dedup: the list after one application
    dedTwice,     \* dedup: the list after two applications
    dpc,          \* dedup: how many applications were made
    environ,      \* os.environ when app.osdu is imported
    DEFAULTS,     \* osdu.DEFAULT_LEGAL_TAG, _OWNERS, _VIEWERS, _COUNTRIES
    pcall,        \* the arguments of the last build_manifest/create_dataspace
    pbody,        \* the JSON body that call has sent
    nin,          \* normalizer: the raw reference given
    nout,         \* normalizer: what the functions returned for it
    npc,          \* normalizer: "idle" | "given" | "normalized" | "again"
    data_block,   \* extract_osdu_links: its argument
    links,        \* extract_osdu_links: the list it returned
    lpc,          \* extract_osdu_links: "idle" | "called" | "returned"
    depth_given,  \* bfs: whether the caller passed a depth
    fin,          \* node fetch: the requested uuid and the JSON of the answer
    fout,         \* node fetch: the object a fetcher made of it, and its refs
    fpc,          \* node fetch: "idle" | "given" | the fetcher that has run
    MANIFESTS,    \* ingest_router._MANIFESTS: <<manifest_id, manifest>> in order
    ireqs,        \* POST /manifest/ingest: the requests in flight and ended
    wfcalls,      \* POST /manifest/ingest: the workflow requests sent
    stored,       \* POST /manifest/ingest: every entry ever put into _MANIFESTS
    last,         \* GET /manifest/last: the latest response
    jar,          \* auth: the cookies the browser holds
    alog,         \* auth: the latest request and what its handler did
    exchanges,    \* auth: how many authorization codes were exchanged
    oidc_cfg      \* auth: whether TENANT and CLIENT_ID are set

envVars == << store, fetchLog, errs, failures, served, fetched >>
bfsVars == << depth, seed, queue, seen, nodes, G, bpc >>
gatherVars == << selections, include_refs, gi, uris, out, gpc >>
buildVars == << bm, bmpc, requests, listed >>
handlerVars == << h_uris, hpc, response >>
dedupVars == << dedIn, dedOnce, dedTwice, dpc >>
paramVars == << environ, DEFAULTS, pcall, pbody >>
normVars == << nin, nout, npc >>
linkVars == << data_block, links, lpc >>
fetchVars == << fin, fout, fpc >>
ingestVars == << MANIFESTS, ireqs, wfcalls, stored, last >>
authVars == << jar, alog, exchanges, oidc_cfg >>
lib2Vars == << depth_given, fetchVars, ingestVars, authVars >>
libVars == << paramVars, normVars, linkVars, lib2Vars >>
vars == << call, envVars, bfsVars, gatherVars, buildVars, handlerVars, dedupVars, libVars >>

(***************************************************************************)
(* tools/resqml_graph.py                                                   *)
(***************************************************************************)

\* _extract_refs.dedup lines 68-74: the loop, with its seen set and out list
RECURSIVE dedupLoop(_, _, _)
dedupLoop(lst, seenKeys, acc) ==
    IF lst = << >> THEN acc
    ELSE LET e == lst[1]
             key == << e.uuid, e.contentType >>
         IN  IF key \notin seenKeys
             THEN dedupLoop(Tail(lst), seenKeys \cup { key }, Append(acc, e))
             ELSE dedupLoop(Tail(lst), seenKeys, acc)

dedup(lst) == dedupLoop(lst, {}, << >>)

\* _extract_refs: the DORs of the object as {uuid, contentType}; all are targets
RECURSIVE add_refs(_)
add_refs(dors) ==
    IF dors = << >> THEN << >>
    ELSE << [uuid |-> dors[1].UUID, contentType |-> dors[1].ContentType, title |-> ""] >>
            \o add_refs(Tail(dors))

_extract_refs(obj) == dedup(add_refs(obj))

\* _get_resource on a success response: the object the store holds for the uuid
\* (raise_for_status raises on every other status)
_get_resource(uuid) == store[uuid]

\* bfs line 90: the stand-in object after an HTTPStatusError; it holds no DOR
ErrorStub == << >>

\* bfs line 103: the type a reference is queued under
TargetType(ct) ==
    IF Contains(ct, "type=")
    THEN LET parts == Split(ct, "type=") IN parts[Len(parts)]
    ELSE ct

Edge(a, b) == { a, b }

\* bfs lines 102-109: the loop over the targets of the node (cur, d)
RECURSIVE AddTargets(_, _, _, _)
AddTargets(targets, cur, d, acc) ==
    IF targets = << >> THEN acc
    ELSE LET t == targets[1]
             n == << TargetType(t.contentType), t.uuid >>
             g == [nodes |-> acc.G.nodes \cup { n },
                   edges |-> acc.G.edges \cup { Edge(cur, n) }]
             enq == d < depth /\ n \notin acc.seen
         IN  AddTargets(Tail(targets), cur, d,
                [G |-> g,
                 seen |-> IF enq THEN acc.seen \cup { n } ELSE acc.seen,
                 queue |-> IF enq THEN Append(acc.queue, << n[1], n[2], d + 1 >>)
                           ELSE acc.queue])

\* one iteration of the while loop of bfs: pop, fetch, record, add the targets
BfsStepOn(st) ==
    /\ bpc = "loop"
    /\ queue # << >>
    /\ st # StatusOk => failures < MaxFailures
    /\ LET cur == << queue[1][1], queue[1][2] >>
           d == queue[1][3]
       IN  /\ fetchLog' = Append(fetchLog, cur)
           /\ errs' = IF st = StatusOk THEN errs ELSE errs \cup { st }
           /\ failures' = IF st = StatusOk THEN failures ELSE failures + 1
           /\ IF st = StatusOk \/ IsHttpError(st)
              THEN LET obj == IF st = StatusOk THEN _get_resource(cur[2]) ELSE ErrorStub
                       acc == AddTargets(_extract_refs(obj), cur, d,
                                [G |-> [nodes |-> G.nodes \cup { cur }, edges |-> G.edges],
                                 seen |-> seen,
                                 queue |-> Tail(queue)])
                   IN  /\ nodes' = nodes \cup { cur }
                       /\ G' = acc.G
                       /\ seen' = acc.seen
                       /\ queue' = acc.queue
                       /\ bpc' = "loop"
              ELSE \* not an httpx.HTTPStatusError: the exception leaves bfs
                   /\ bpc' = "raised"
                   /\ queue' = Tail(queue)
                   /\ UNCHANGED << nodes, G, seen >>
    /\ UNCHANGED << call, libVars, store, served, fetched, depth, seed >>
    /\ UNCHANGED << gatherVars, buildVars, handlerVars, dedupVars >>

\* the queue is empty: return G, nodes
BfsReturn ==
    /\ bpc = "loop"
    /\ queue = << >>
    /\ bpc' = "returned"
    /\ UNCHANGED << call, libVars, envVars, depth, seed, queue, seen, nodes, G >>
    /\ UNCHANGED << gatherVars, buildVars, handlerVars, dedupVars >>

\* the parts of the state an entry point does not use
EnvIdle == fetchLog = << >> /\ errs = {} /\ failures = 0 /\ served = 0 /\ fetched = << >>
BfsIdle ==
    /\ store = [u \in Uuids |-> << >>]
    /\ depth = 0 /\ seed = << "", "" >> /\ queue = << >> /\ seen = {}
    /\ nodes = {} /\ G = [nodes |-> {}, edges |-> {}] /\ bpc = "idle"
GatherIdle ==
    /\ selections = << >> /\ include_refs = FALSE /\ gi = 1
    /\ uris = << >> /\ out = << >> /\ gpc = "idle"
BuildIdle ==
    /\ bm = [explicit_given |-> FALSE, explicit_uris |-> << >>, use_all_resources |-> FALSE]
    /\ bmpc = "idle" /\ requests = << >> /\ listed = [called |-> FALSE, uris |-> << >>]
HandlerIdle ==
    /\ h_uris = << >> /\ hpc = "idle" /\ response = [status |-> "none", stage |-> "none"]
DedupIdle ==
    /\ dedIn = [kind |-> "none", list |-> << >>]
    /\ dedOnce = << >> /\ dedTwice = << >> /\ dpc = 0
ParamIdle ==
    /\ environ = << >> /\ DEFAULTS = << >>
    /\ pcall = [fn |-> "none"] /\ pbody = << >>
NormIdle == nin = << >> /\ nout = << >> /\ npc = "idle"
LinkIdle == data_block = << >> /\ links = << >> /\ lpc = "idle"
FetchIdle == fin = << >> /\ fout = << >> /\ fpc = "idle"
IngestIdle ==
    /\ MANIFESTS = << >> /\ ireqs = << >> /\ wfcalls = << >>
    /\ stored = << >> /\ last = << >>
AuthIdle == jar = << >> /\ alog = << >> /\ exchanges = 0 /\ oidc_cfg = FALSE
Lib2Idle == depth_given = FALSE /\ FetchIdle /\ IngestIdle /\ AuthIdle
LibIdle == ParamIdle /\ NormIdle /\ LinkIdle /\ Lib2Idle

\* depth:int=2 in the signature of bfs; --depth default=2 in main
bfs_default_depth == 2

\* bfs lines 77-82 for a call bfs(.., typ, uuid, depth) or bfs(.., typ, uuid)
InitBfs ==
    /\ call = "bfs"
    /\ store \in Stores
    /\ EnvIdle /\ ParamIdle /\ NormIdle /\ LinkIdle
    /\ FetchIdle /\ IngestIdle /\ AuthIdle
    /\ depth_given \in BOOLEAN
    /\ depth \in (IF depth_given THEN 0..MaxDepth ELSE { bfs_default_depth })
    /\ \E u \in Uuids : seed = << TypePathOf(u), u >>
    /\ queue = << << seed[1], seed[2], 0 >> >>
    /\ seen = { seed }
    /\ nodes = {}
    /\ G = [nodes |-> {}, edges |-> {}]
    /\ bpc = "loop"
    /\ GatherIdle /\ BuildIdle /\ HandlerIdle /\ DedupIdle

BfsStep == bpc = "loop" /\ \E st \in Statuses : BfsStepOn(st)

NextBfs == BfsStep \/ BfsReturn

SpecBfs == InitBfs /\ [][NextBfs]_vars

(***************************************************************************)
(* osdu.py: URI helpers                                                    *)
(***************************************************************************)
\* Python None as the result of a string-valued function
None == "<None>"

\* _dataspace_uri
_dataspace_uri(path) == "eml:///dataspace('" \o path \o "')"

\* _type_from_content_type
_type_from_content_type(ct) ==
    IF ct = "" THEN None
    ELSE LET parts == Split(ct, "type=")
         IN  IF Len(parts) < 2 THEN None
             ELSE LET t == Strip(parts[2])
                  IN  IF StartsWith(t, "obj_") THEN "resqml20." \o t
                      ELSE IF Contains(t, "resqml20.obj_")
                           THEN Strip(SubSeq(t, Find(t, "resqml20.obj_"), Len(t)))
                           ELSE None

\* uri_from_ref
uri_from_ref(ds_path, content_type, uuid) ==
    LET typ == _type_from_content_type(content_type)
    IN  IF typ = None \/ typ = "" \/ uuid = "" THEN None
        ELSE "eml:///dataspace('" \o ds_path \o "')/" \o typ \o "(" \o uuid \o ")"

\* urllib.parse.quote(s, safe=""), for the characters dataspace paths hold
RECURSIVE quote(_)
quote(s) ==
    IF Len(s) = 0 THEN s
    ELSE (IF SubSeq(s, 1, 1) = "/" THEN "%2F"
          ELSE IF SubSeq(s, 1, 1) = " " THEN "%20"
          ELSE SubSeq(s, 1, 1)) \o quote(SubSeq(s, 2, Len(s)))

\* primary_uri with the URL-quoted path ds_enc in place of ds_path
primary_uri_ds_enc(ds_path, typ, uuid) ==
    "eml:///dataspace('" \o quote(ds_path) \o "')/" \o typ \o "(" \o uuid \o ")"

\* gather_selected_uris_with_refs line 341
primary_uri(ds_path, typ, uuid) ==
    "eml:///dataspace('" \o ds_path \o "')/" \o typ \o "(" \o uuid \o ")"

\* extract_refs: the dicts of the object with a ContentType and a UUID, in walk
\* order (an absent or empty field is "")
RECURSIVE extract_refs(_)
extract_refs(obj) ==
    IF obj = << >> THEN << >>
    ELSE (IF obj[1].ContentType # "" /\ obj[1].UUID # ""
          THEN << [contentType |-> obj[1].ContentType, uuid |-> obj[1].UUID] >>
          ELSE << >>) \o extract_refs(Tail(obj))

\* RefUris leaving the loop at the first reference that has no URI
RECURSIVE RefUrisUntilMalformed(_, _)
RefUrisUntilMalformed(ds_path, refs) ==
    IF refs = << >> THEN << >>
    ELSE LET ref_uri == uri_from_ref(ds_path, refs[1].contentType, refs[1].uuid)
         IN  IF ref_uri # None
             THEN << ref_uri >> \o RefUrisUntilMalformed(ds_path, Tail(refs))
             ELSE << >>

\* gather_selected_uris_with_refs lines 345-348: the URIs of the references
RECURSIVE RefUris(_, _)
RefUris(ds_path, refs) ==
    IF refs = << >> THEN << >>
    ELSE LET ref_uri == uri_from_ref(ds_path, refs[1].contentType, refs[1].uuid)
         IN  (IF ref_uri # None THEN << ref_uri >> ELSE << >>)
                \o RefUris(ds_path, Tail(refs))

\* gather_selected_uris_with_refs lines 349-356: unique, preserve order
RECURSIVE UniqueLoop(_, _, _)
UniqueLoop(us, seenUris, acc) ==
    IF us = << >> THEN acc
    ELSE IF us[1] \notin seenUris
         THEN UniqueLoop(Tail(us), seenUris \cup { us[1] }, Append(acc, us[1]))
         ELSE UniqueLoop(Tail(us), seenUris, acc)

\* Unique keeping the last occurrence of every URI instead of the first
RECURSIVE UniqueKeepLast(_)
UniqueKeepLast(us) ==
    IF us = << >> THEN << >>
    ELSE IF \E i \in 2..Len(us) : us[i] = us[1]
         THEN UniqueKeepLast(Tail(us))
         ELSE << us[1] >> \o UniqueKeepLast(Tail(us))

\* Unique whose seen set is emptied when a repeated URI is met
RECURSIVE UniqueRestartLoop(_, _, _)
UniqueRestartLoop(us, seenUris, acc) ==
    IF us = << >> THEN acc
    ELSE IF us[1] \notin seenUris
         THEN UniqueRestartLoop(Tail(us), seenUris \cup { us[1] }, Append(acc, us[1]))
         ELSE UniqueRestartLoop(Tail(us), {}, acc)

UniqueRestart(us) == UniqueRestartLoop(us, {}, << >>)

Unique(us) == UniqueLoop(us, {}, << >>)

(***************************************************************************)
(* What the remote store may answer to the web application.                *)
(***************************************************************************)
\* a DataObjectReference-like dict whose content type names no object type
BadDor == [ContentType |-> "application/octet-stream", UUID |-> "u1"]

\* the objects a resource fetch may return: the DOR dicts found in them, to
\* two RESQML objects, to an EML object, and the dict that names no type
ObjectDors == { Dor(UuidNames[1]), Dor(UuidNames[2]), Dor(UuidNames[3]), BadDor }
Objects == SeqUpTo(ObjectDors, MaxServed)

\* the nodes of the dataspace
SeedNodes == { << TypePathOf(u), u >> : u \in Uuids }

\* the nodes the selections of the model are made of: a RESQML and an EML one
Selectable == { << TypePathOf(u), u >> : u \in { UuidNames[1], UuidNames[3] } }

\* the URIs of the objects of the dataspace
ObjectUris == { primary_uri(DsPath, n[1], n[2]) : n \in SeedNodes }

\* rows of GET /resources/all: dicts with a uri, dicts without, other values
Rows == { [isdict |-> TRUE, uri |-> u] : u \in ObjectUris \cup { "" } }
            \cup { [isdict |-> FALSE, uri |-> ""] }
RowLists == SeqUpTo(Rows, MaxRows)

(***************************************************************************)
(* osdu.py: gather_selected_uris_with_refs                                 *)
(***************************************************************************)
\* one iteration of the for loop over the selections (lines 340-348) for the
\* selection (typ, uuid); st and obj are the remote's answer to get_resource.
\* fetched: a request was sent; raised: the iteration ends in an exception
\* (raise_for_status or the transport; nothing in the function catches it);
\* add: what the iteration appends to uris.
\* gather_iteration without the include_refs test: the object is always fetched
gather_iteration_always_fetch(incl, typ, uuid, st, obj) ==
    LET primary == << primary_uri(DsPath, typ, uuid) >>
    IN  IF st = StatusOk
        THEN [fetched |-> TRUE, raised |-> FALSE,
              add |-> primary \o RefUris(DsPath, extract_refs(obj))]
        ELSE [fetched |-> TRUE, raised |-> TRUE, add |-> primary]

gather_iteration(incl, typ, uuid, st, obj) ==
    LET primary == << primary_uri(DsPath, typ, uuid) >>
    IN  IF incl
        THEN IF st = StatusOk
             THEN [fetched |-> TRUE, raised |-> FALSE,
                   add |-> primary \o RefUris(DsPath, extract_refs(obj))]
             ELSE [fetched |-> TRUE, raised |-> TRUE, add |-> primary]
        ELSE [fetched |-> FALSE, raised |-> FALSE, add |-> primary]

GatherStepOn(st, obj) ==
    /\ gpc = "loop"
    /\ gi <= Len(selections)
    /\ (include_refs /\ st # StatusOk) => (failures < MaxFailures /\ obj = << >>)
    /\ Len(obj) <= MaxServed - served
    /\ ~include_refs => (st = StatusOk /\ obj = << >>)
    /\ LET it == gather_iteration(include_refs, selections[gi][1], selections[gi][2], st, obj)
       IN  /\ uris' = uris \o it.add
           /\ gi' = IF it.raised THEN gi ELSE gi + 1
           /\ gpc' = IF it.raised THEN "raised" ELSE "loop"
           /\ fetchLog' = IF it.fetched THEN Append(fetchLog, selections[gi]) ELSE fetchLog
           /\ errs' = IF it.fetched /\ st # StatusOk THEN errs \cup { st } ELSE errs
           /\ failures' = IF it.fetched /\ st # StatusOk THEN failures + 1 ELSE failures
           /\ served' = served + Len(obj)
           /\ fetched' = IF it.fetched /\ st = StatusOk THEN Append(fetched, obj)
                         ELSE fetched
    /\ UNCHANGED << call, libVars, store, bfsVars, selections, include_refs, out >>
    /\ UNCHANGED << buildVars, handlerVars, dedupVars >>

\* after the loop (lines 349-356): dedup and return
GatherReturn ==
    /\ gpc = "loop"
    /\ gi > Len(selections)
    /\ out' = Unique(uris)
    /\ gpc' = "returned"
    /\ UNCHANGED << call, libVars, envVars, bfsVars, selections, include_refs, gi, uris >>
    /\ UNCHANGED << buildVars, handlerVars, dedupVars >>

(***************************************************************************)
(* osdu.py: list_all_resource_uris, build_manifest                         *)
(***************************************************************************)
\* list_all_resource_uris lines 294-299: the truthy 'uri' of the dict rows
RECURSIVE list_all_resource_uris(_)
list_all_resource_uris(rows) ==
    IF rows = << >> THEN << >>
    ELSE (IF rows[1].isdict /\ rows[1].uri # "" THEN << rows[1].uri >> ELSE << >>)
            \o list_all_resource_uris(Tail(rows))

\* build_manifest lines 399-410: the request body (its uris field)
ManifestBody(us) == [kind |-> "manifests/build", uris |-> us]

\* build_manifest taking explicit_uris whenever it is not None, empty or not
build_manifest_explicit_not_none(path, explicit_given, explicit_uris, use_all_resources, stList, rows, stPost) ==
    [sent |-> << ManifestBody(IF explicit_given THEN explicit_uris
                              ELSE << _dataspace_uri(path) >>) >>,
     result |-> IF stPost = StatusOk THEN "returned"
                ELSE IF IsHttpError(stPost) THEN "HTTPStatusError"
                ELSE "TransportError"]

\* build_manifest lines 387-420. stList and rows are the remote's answer to
\* GET /resources/all, stPost its answer to POST /manifests/build. The result
\* is the list of bodies sent (none, or one) and how the call ends.
build_manifest(path, explicit_given, explicit_uris, use_all_resources, stList, rows, stPost) ==
    LET post(us) ==
            [sent |-> << ManifestBody(us) >>,
             result |-> IF stPost = StatusOk THEN "returned"
                        ELSE IF IsHttpError(stPost) THEN "HTTPStatusError"
                        ELSE "TransportError"]
    IN  IF explicit_given /\ Len(explicit_uris) > 0
        THEN post(explicit_uris)
        ELSE IF use_all_resources
        THEN IF stList # StatusOk
             THEN [sent |-> << >>,
                   result |-> IF IsHttpError(stList) THEN "HTTPStatusError"
                              ELSE "TransportError"]
             ELSE LET all_uris == list_all_resource_uris(rows)
                  IN  IF all_uris = << >> THEN post(<< _dataspace_uri(path) >>)
                      ELSE post(all_uris)
        ELSE post(<< _dataspace_uri(path) >>)

\* whether a call with these arguments reaches GET /resources/all
ListsAll(explicit_given, explicit_uris, use_all_resources) ==
    ~(explicit_given /\ Len(explicit_uris) > 0) /\ use_all_resources

\* a direct call build_manifest(at, path, use_all_resources=.., explicit_uris=..)
BuildManifestCallOn(stList, rows, stPost) ==
    /\ call = "build_manifest"
    /\ bmpc = "called"
    /\ ~ListsAll(bm.explicit_given, bm.explicit_uris, bm.use_all_resources)
            => (stList = StatusOk /\ rows = << >>)
    /\ (ListsAll(bm.explicit_given, bm.explicit_uris, bm.use_all_resources)
            /\ stList # StatusOk) => (rows = << >> /\ stPost = StatusOk)
    /\ LET r == build_manifest(DsPath, bm.explicit_given, bm.explicit_uris,
                               bm.use_all_resources, stList, rows, stPost)
       IN  /\ requests' = requests \o r.sent
           /\ bmpc' = IF r.result = "returned" THEN "returned" ELSE "raised"
    /\ listed' = IF ListsAll(bm.explicit_given, bm.explicit_uris, bm.use_all_resources)
                     /\ stList = StatusOk
                  THEN [called |-> TRUE, uris |-> list_all_resource_uris(rows)]
                  ELSE listed
    /\ UNCHANGED << call, libVars, envVars, bfsVars, gatherVars, bm, handlerVars, dedupVars >>

(***************************************************************************)
(* main.py: dataspaces_manifest                                            *)
(***************************************************************************)
\* line 717: [(typ, u.strip()) for u in uuids.split(",") if u.strip()]
RECURSIVE SelectionsOf(_, _)
SelectionsOf(typ, pieces) ==
    IF pieces = << >> THEN << >>
    ELSE (IF Strip(pieces[1]) # "" THEN << << typ, Strip(pieces[1]) >> >> ELSE << >>)
            \o SelectionsOf(typ, Tail(pieces))

ErrorResponse(stage) == [status |-> "error", stage |-> stage]

\* lines 695-719: access token, legal tag / partition check, selection set.
\* hasToken: request.state carries an access token; partition is
\* osdu.DATA_PARTITION_ID; legal, typ and uuids are form fields of the request
HValidateOn(hasToken, partition, legal, typ, uuids) ==
    /\ hpc = "validate"
    /\ IF ~hasToken
       THEN /\ response' = [status |-> "HTTPException", stage |-> "access_token"]
            /\ hpc' = "done"
            /\ UNCHANGED selections
       ELSE IF partition # "" /\ ~StartsWith(legal, partition \o "-")
       THEN /\ response' = ErrorResponse("validate")
            /\ hpc' = "done"
            /\ UNCHANGED selections
       ELSE IF Strip(uuids) # "" /\ typ = ""
       THEN /\ response' = ErrorResponse("validate")
            /\ hpc' = "done"
            /\ UNCHANGED selections
       ELSE /\ selections' = IF Strip(uuids) # ""
                             THEN SelectionsOf(typ, Split(uuids, ","))
                             ELSE << >>
            /\ hpc' = "gather"
            /\ UNCHANGED response
    /\ UNCHANGED << call, libVars, envVars, bfsVars, include_refs, gi, uris, out, gpc >>
    /\ UNCHANGED << buildVars, h_uris, dedupVars >>

\* lines 723-724: selections given, gather_selected_uris_with_refs is called
\* with the form field include_refs
HGatherSelectedOn(incl) ==
    /\ hpc = "gather"
    /\ selections # << >>
    /\ include_refs' = incl
    /\ gi' = 1 /\ uris' = << >> /\ out' = << >> /\ gpc' = "loop"
    /\ hpc' = "gathering"
    /\ UNCHANGED << call, libVars, envVars, bfsVars, selections, buildVars >>
    /\ UNCHANGED << h_uris, response, dedupVars >>

\* line 724 returns: uris is the list gather returned
HGatherReturned ==
    /\ hpc = "gathering"
    /\ gpc = "returned"
    /\ h_uris' = out
    /\ hpc' = "build"
    /\ UNCHANGED << call, libVars, envVars, bfsVars, gatherVars, buildVars, response, dedupVars >>

\* lines 732-733: gather raised, the handler answers with stage gather_uris
HGatherRaised ==
    /\ hpc = "gathering"
    /\ gpc = "raised"
    /\ response' = ErrorResponse("gather_uris")
    /\ hpc' = "done"
    /\ UNCHANGED << call, libVars, envVars, bfsVars, gatherVars, buildVars, h_uris, dedupVars >>

\* lines 725-729 (and 732-733): no selection and the form field
\* use_all_resources set: all resources of the dataspace
HGatherAllOn(st, rows) ==
    /\ hpc = "gather"
    /\ selections = << >>
    /\ st # StatusOk => rows = << >>
    /\ IF st = StatusOk
       THEN /\ h_uris' = IF list_all_resource_uris(rows) = << >>
                         THEN << _dataspace_uri(DsPath) >>
                         ELSE list_all_resource_uris(rows)
            /\ hpc' = "build"
            /\ UNCHANGED response
       ELSE /\ response' = ErrorResponse("gather_uris")
            /\ hpc' = "done"
            /\ UNCHANGED h_uris
    /\ listed' = IF st = StatusOk
                  THEN [called |-> TRUE, uris |-> list_all_resource_uris(rows)]
                  ELSE listed
    /\ UNCHANGED << call, libVars, envVars, bfsVars, gatherVars, bm, bmpc, requests, dedupVars >>

\* lines 730-731: no selection and use_all_resources not set: the dataspace URI
HGatherDataspace ==
    /\ hpc = "gather"
    /\ selections = << >>
    /\ h_uris' = << _dataspace_uri(DsPath) >>
    /\ hpc' = "build"
    /\ UNCHANGED << call, libVars, envVars, bfsVars, gatherVars, buildVars, response, dedupVars >>

\* lines 735-753: build_manifest with explicit_uris=uris; only HTTPStatusError
\* is caught
HBuildOn(stPost) ==
    /\ hpc = "build"
    /\ LET r == build_manifest(DsPath, TRUE, h_uris, FALSE, StatusOk, << >>, stPost)
       IN  /\ requests' = requests \o r.sent
           /\ IF r.result = "returned"
              THEN hpc' = "workflow" /\ UNCHANGED response
              ELSE IF r.result = "HTTPStatusError"
              THEN hpc' = "done" /\ response' = ErrorResponse("build")
              ELSE hpc' = "done" /\ response' = [status |-> "unhandled", stage |-> "build"]
    /\ UNCHANGED << call, libVars, envVars, bfsVars, gatherVars, bm, bmpc, listed, h_uris, dedupVars >>

\* lines 755-776: submit_workflow_run; every exception is caught
HWorkflowOn(st) ==
    /\ hpc = "workflow"
    /\ requests' = Append(requests, [kind |-> "workflowRun", uris |-> << >>])
    /\ response' = IF st = StatusOk THEN [status |-> "ok", stage |-> "workflow"]
                   ELSE ErrorResponse("workflow")
    /\ hpc' = "done"
    /\ UNCHANGED << call, libVars, envVars, bfsVars, gatherVars, bm, bmpc, listed, h_uris, dedupVars >>

(***************************************************************************)
(* The calls of the web application.                                       *)
(***************************************************************************)
RECURSIVE Join(_, _)
Join(pieces, sep) ==
    IF pieces = << >> THEN ""
    ELSE IF Len(pieces) = 1 THEN pieces[1]
    ELSE pieces[1] \o sep \o Join(Tail(pieces), sep)

\* values of the uuids form field: comma-separated, with blanks and empty items
UuidPieces == { UuidNames[i] : i \in 1..Min(2, MaxNodes) } \cup { "", " u1 " }
UuidsInputs == { Join(p, ",") : p \in SeqUpTo(UuidPieces, MaxSel) }

Partitions == { "", "dp1" }
LegalTags == { "dp1-RDDMS-Legal-Tag", "osdu-public" }
TypInputs == { "", "resqml20.obj_Grid2dRepresentation" }

\* gather_selected_uris_with_refs(at, ds_path, selections, include_refs)
InitGather ==
    /\ call = "gather"
    /\ selections \in SeqUpTo(Selectable, MaxSel)
    /\ include_refs \in BOOLEAN
    /\ gi = 1 /\ uris = << >> /\ out = << >> /\ gpc = "loop"
    /\ EnvIdle /\ LibIdle /\ BfsIdle /\ BuildIdle /\ HandlerIdle /\ DedupIdle

\* build_manifest(at, path, use_all_resources=.., explicit_uris=..)
InitBuild ==
    /\ call = "build_manifest"
    /\ bm \in [explicit_given : BOOLEAN,
               explicit_uris : SeqUpTo(ObjectUris, MaxRows),
               use_all_resources : BOOLEAN]
    /\ ~bm.explicit_given => bm.explicit_uris = << >>
    /\ bmpc = "called" /\ requests = << >> /\ listed = [called |-> FALSE, uris |-> << >>]
    /\ EnvIdle /\ LibIdle /\ BfsIdle /\ GatherIdle /\ HandlerIdle /\ DedupIdle

\* POST /dataspaces/manifest
InitHandler ==
    /\ call = "dataspaces_manifest"
    /\ selections = << >> /\ include_refs = FALSE /\ gi = 1
    /\ uris = << >> /\ out = << >> /\ gpc = "idle"
    /\ h_uris = << >> /\ hpc = "validate" /\ response = [status |-> "none", stage |-> "none"]
    /\ EnvIdle /\ LibIdle /\ BfsIdle /\ BuildIdle /\ DedupIdle

Init == InitGather \/ InitBuild \/ InitHandler

\* the actions with the answers of the remote and the fields of the request
GatherStep == gpc = "loop" /\ \E st \in Statuses, obj \in Objects : GatherStepOn(st, obj)

BuildManifestCall ==
    bmpc = "called" /\ \E stList \in Statuses, rows \in RowLists, stPost \in Statuses :
        BuildManifestCallOn(stList, rows, stPost)

HValidate ==
    hpc = "validate" /\ \E hasToken \in BOOLEAN, partition \in Partitions,
        legal \in LegalTags, typ \in TypInputs, uuids \in UuidsInputs :
            HValidateOn(hasToken, partition, legal, typ, uuids)

HGatherSelected == hpc = "gather" /\ \E incl \in BOOLEAN : HGatherSelectedOn(incl)

HGatherAll == hpc = "gather" /\ \E st \in Statuses, rows \in RowLists : HGatherAllOn(st, rows)

HBuild == hpc = "build" /\ \E st \in Statuses : HBuildOn(st)

HWorkflow == hpc = "workflow" /\ \E st \in Statuses : HWorkflowOn(st)

Next ==
    \/ GatherStep
    \/ GatherReturn
    \/ BuildManifestCall
    \/ HValidate
    \/ HGatherSelected
    \/ HGatherReturned
    \/ HGatherRaised
    \/ HGatherAll
    \/ HGatherDataspace
    \/ HBuild
    \/ HWorkflow

Spec == Init /\ [][Next]_vars

(***************************************************************************)
(* The two order-preserving dedup steps as functions of their input.       *)
(***************************************************************************)
\* entries of the targets list of _extract_refs: {uuid, contentType, title}
DedupEntries ==
    [uuid : { UuidNames[1], UuidNames[2] },
     contentType : { "application/x-resqml+xml;version=2.0;type=obj_Grid2dRepresentation",
                     "application/x-eml+xml;version=2.0;type=obj_EpcExternalPartReference" },
     title : { "", "Top" }]

DedupInputs ==
    [kind : { "uris" }, list : SeqUpTo(ObjectUris \cup { _dataspace_uri(DsPath) }, MaxList)]
        \cup [kind : { "refs" }, list : SeqUpTo(DedupEntries, MaxList)]

ApplyDedup(kind, lst) == IF kind = "uris" THEN Unique(lst) ELSE dedup(lst)

DedupFirst ==
    /\ dpc = 0
    /\ dedOnce' = ApplyDedup(dedIn.kind, dedIn.list)
    /\ dpc' = 1
    /\ UNCHANGED << call, libVars, envVars, bfsVars, gatherVars, buildVars, handlerVars, dedIn, dedTwice >>

DedupSecond ==
    /\ dpc = 1
    /\ dedTwice' = ApplyDedup(dedIn.kind, dedOnce)
    /\ dpc' = 2
    /\ UNCHANGED << call, libVars, envVars, bfsVars, gatherVars, buildVars, handlerVars, dedIn, dedOnce >>

InitDedup ==
    /\ call = "dedup"
    /\ dedIn \in DedupInputs
    /\ dedOnce = << >> /\ dedTwice = << >> /\ dpc = 0
    /\ EnvIdle /\ LibIdle /\ BfsIdle /\ GatherIdle /\ BuildIdle /\ HandlerIdle

NextDedup == DedupFirst \/ DedupSecond

SpecDedup == InitDedup /\ [][NextDedup]_vars

(***************************************************************************)
(* Properties.                                                             *)
(***************************************************************************)
\* the URI the engine gives the object (typ, uuid) of the dataspace
CanonicalUri(typ, uuid) == "eml:///dataspace('demo/Volve')/" \o typ \o "(" \o uuid \o ")"

NoDuplicates(q) == \A i, j \in 1..Len(q) : i < j => q[i] # q[j]

FirstIndex(q, x) == CHOOSE i \in 1..Len(q) : q[i] = x /\ \A j \in 1..(i - 1) : q[j] # x

\* the (typePath, id) a URI names; a dataspace-level URI is its own key
KeyOf(uri) ==
    LET at == Find(uri, "')/")
    IN  IF at = 0 THEN << uri >>
        ELSE LET rest == SubSeq(uri, at + 3, Len(uri))
                 open == Find(rest, "(")
             IN  IF open = 0 THEN << uri >>
                 ELSE << SubSeq(rest, 1, open - 1), SubSeq(rest, open + 1, Len(rest) - 1) >>

\* the reference graph of the store
Succ(u) == { store[u][i].UUID : i \in 1..Len(store[u]) }

RECURSIVE Within(_, _)
Within(u, k) ==
    IF k = 0 THEN { u }
    ELSE LET w == Within(u, k - 1) IN w \cup UNION { Succ(x) : x \in w }

Reachable(u) == Within(u, MaxNodes)

Acyclic == \A u \in Uuids : \A v \in Succ(u) : u \notin Reachable(v)

BuildRequests == { i \in 1..Len(requests) : requests[i].kind = "manifests/build" }

\* C1: a node fetch that fails for a reason other than the credential (404,
\* 5xx, timeout) never makes the resolution raise.
C1_NonCredentialFailureNeverRaises ==
    (errs # {} /\ \A st \in errs : ~IsCredentialFailure(st))
        => (gpc # "raised" /\ bpc # "raised")

C5_SeedsInResult ==
    gpc = "returned"
        => \A i \in 1..Len(selections) :
              CanonicalUri(selections[i][1], selections[i][2]) \in Range(out)

C5_Witness ==
    /\ gpc = "returned" /\ include_refs
    /\ Len(selections) = 2 /\ selections[1] # selections[2]
    /\ CanonicalUri(selections[2][1], selections[2][2]) \in Range(SubSeq(uris, 2, 2))
    /\ Len(out) < Len(uris)

\* C6: with include_refs false no fetch is issued and the result is exactly
\* the seeds' URIs, each once.
C6_NoRefsNoFetch ==
    (gpc = "returned" /\ ~include_refs)
        => /\ fetchLog = << >>
           /\ Range(out) = { CanonicalUri(selections[i][1], selections[i][2]) :
                                i \in 1..Len(selections) }
           /\ NoDuplicates(out)

C6_Witness ==
    /\ gpc = "returned" /\ ~include_refs
    /\ Len(selections) = 2 /\ selections[1] = selections[2]
    /\ Len(out) = 1

\* C7: the returned list is the collected list in first-seen order and no
\* two of its entries name the same (typePath, id).
C7_FirstSeenOrderNoDuplicateKey ==
    gpc = "returned"
        => /\ Range(out) = Range(uris)
           /\ \A i, j \in 1..Len(out) :
                i < j => /\ KeyOf(out[i]) # KeyOf(out[j])
                         /\ FirstIndex(uris, out[i]) < FirstIndex(uris, out[j])

C7_Witness ==
    /\ gpc = "returned" /\ include_refs
    /\ Len(out) >= 3 /\ Len(uris) > Len(out)
    /\ \E i \in 2..Len(uris) : uris[i] = uris[1]

\* C8: applying either dedup step to its own output returns that output.
C8_DedupIdempotent == dpc = 2 => dedTwice = dedOnce

C8_Witness ==
    /\ dpc = 2
    /\ Len(dedOnce) >= 2
    /\ Len(dedOnce) < Len(dedIn.list)

\* C9: every manifest-build request body has a non-empty uris list, and it
\* is exactly the dataspace URI when no URI was collected.
NoUriCollected ==
    /\ call = "build_manifest" => bm.explicit_uris = << >>
    /\ call = "build_manifest" /\ bm.use_all_resources => listed.uris = << >>
    /\ call = "dataspaces_manifest" => selections = << >>
    /\ call = "dataspaces_manifest" /\ listed.called => listed.uris = << >>

C9_UrisNeverEmpty ==
    \A i \in BuildRequests :
        /\ requests[i].uris # << >>
        /\ NoUriCollected => requests[i].uris = << "eml:///dataspace('demo/Volve')" >>

C9_Witness ==
    /\ BuildRequests # {}
    /\ listed.called /\ listed.uris = << >>
    /\ requests[1].uris = << "eml:///dataspace('demo/Volve')" >>

\* C10: the uris list of every manifest-build request body holds no URI twice.
C10_UrisNoDuplicate ==
    \A i \in BuildRequests : NoDuplicates(requests[i].uris)

(***************************************************************************)
(* osdu.py: the process-wide defaults (lines 21-37), and the compliance    *)
(* fields of build_manifest and create_dataspace.                          *)
(***************************************************************************)
\* os.getenv(name, default): default where the variable is unset
getenv(env, name, default) == IF env[name] = None THEN default ELSE env[name]

\* [x.strip() for x in parts if x.strip()]
RECURSIVE StripNonEmpty(_)
StripNonEmpty(parts) ==
    IF parts = << >> THEN << >>
    ELSE (IF Strip(parts[1]) # "" THEN << Strip(parts[1]) >> ELSE << >>)
            \o StripNonEmpty(Tail(parts))

\* [x.strip() for x in s.split(",") if x.strip()]
SplitCsv(s) == StripNonEmpty(Split(s, ","))

\* _partition_suffix
_partition_suffix(dpi) ==
    IF dpi # "" THEN dpi \o ".dataservices.energy" ELSE "partition.dataservices.energy"

\* the module globals after the import of app.osdu under the environment env
StartupDefaults(env) ==
    LET dpi == Strip(getenv(env, "DATA_PARTITION_ID", ""))
    IN  [DEFAULT_LEGAL_TAG |->
            getenv(env, "DEFAULT_LEGAL_TAG",
                   IF dpi # "" THEN dpi \o "-RDDMS-Legal-Tag" ELSE "dp1-RDDMS-Legal-Tag"),
         DEFAULT_OWNERS |->
            SplitCsv(getenv(env, "DEFAULT_OWNERS",
                            "data.default.owners@" \o _partition_suffix(dpi))),
         DEFAULT_VIEWERS |->
            SplitCsv(getenv(env, "DEFAULT_VIEWERS",
                            "data.default.viewers@" \o _partition_suffix(dpi))),
         DEFAULT_COUNTRIES |-> SplitCsv(getenv(env, "DEFAULT_COUNTRIES", "US"))]

\* the environments of the model
NoEnviron ==
    [DATA_PARTITION_ID |-> None, DEFAULT_LEGAL_TAG |-> None, DEFAULT_OWNERS |-> None,
     DEFAULT_VIEWERS |-> None, DEFAULT_COUNTRIES |-> None]
Environs ==
    { NoEnviron,
      [NoEnviron EXCEPT !.DATA_PARTITION_ID = "opendes"],
      [NoEnviron EXCEPT !.DEFAULT_OWNERS = "owners@opendes, admins@opendes"],
      [NoEnviron EXCEPT !.DEFAULT_COUNTRIES = ""] }

\* a keyword argument: given is FALSE where the caller leaves it out (or passes
\* None), value is then the empty string or list
Given(v) == [given |-> TRUE, value |-> v]
NoStr == [given |-> FALSE, value |-> ""]
NoList == [given |-> FALSE, value |-> << >>]

\* arg or default, for a str or list argument
Or(arg, default) == IF arg.given /\ Len(arg.value) > 0 THEN arg.value ELSE default

\* the Defaults block as if the four names were declared global in the function
build_manifest_defaults_global(globals, legal_tag, owners, viewers, countries) ==
    LET loc == [legal_tag |-> Or(legal_tag, globals.DEFAULT_LEGAL_TAG),
                owners |-> Or(owners, globals.DEFAULT_OWNERS),
                viewers |-> Or(viewers, globals.DEFAULT_VIEWERS),
                countries |-> Or(countries, globals.DEFAULT_COUNTRIES)]
    IN  [locals |-> loc,
         globals |-> [DEFAULT_LEGAL_TAG |-> loc.legal_tag, DEFAULT_OWNERS |-> loc.owners,
                      DEFAULT_VIEWERS |-> loc.viewers, DEFAULT_COUNTRIES |-> loc.countries]]

\* build_manifest lines 381-385: the four names are parameters, so the
\* assignments bind locals of the call and leave the module globals alone
build_manifest_defaults(globals, legal_tag, owners, viewers, countries) ==
    [locals |-> [legal_tag |-> Or(legal_tag, globals.DEFAULT_LEGAL_TAG),
                 owners |-> Or(owners, globals.DEFAULT_OWNERS),
                 viewers |-> Or(viewers, globals.DEFAULT_VIEWERS),
                 countries |-> Or(countries, globals.DEFAULT_COUNTRIES)],
     globals |-> globals]

\* build_manifest lines 399-410: the whole request body
ManifestRequest(us, loc, create_missing_refs) ==
    [uris |-> us,
     acl |-> [owners |-> loc.owners, viewers |-> loc.viewers],
     legal |-> [legaltags |-> << loc.legal_tag >>,
                otherRelevantDataCountries |-> loc.countries],
     createMissingReferences |-> create_missing_refs]

\* create_missing_refs: bool = True in the signature, bool(..) at line 409
NoBool == [given |-> FALSE, value |-> TRUE]

\* a call build_manifest(at, path, legal_tag=.., owners=.., viewers=..,
\* countries=.., create_missing_refs=.., use_all_resources=.., explicit_uris=..)
BuildManifestParamsOn(legal_tag, owners, viewers, countries, create_missing_refs, explicit, use_all_resources, stList, rows, stPost) ==
    /\ ~ListsAll(explicit.given, explicit.value, use_all_resources)
            => (stList = StatusOk /\ rows = << >>)
    /\ (ListsAll(explicit.given, explicit.value, use_all_resources)
            /\ stList # StatusOk) => (rows = << >> /\ stPost = StatusOk)
    /\ LET d == build_manifest_defaults(DEFAULTS, legal_tag, owners, viewers, countries)
           r == build_manifest(DsPath, explicit.given, explicit.value,
                               use_all_resources, stList, rows, stPost)
       IN  /\ DEFAULTS' = d.globals
           /\ pbody' = IF r.sent = << >> THEN << >>
                       ELSE << ManifestRequest(r.sent[1].uris, d.locals,
                                               create_missing_refs.value) >>
           /\ pcall' = [fn |-> "build_manifest", legal_tag |-> legal_tag,
                        owners |-> owners, viewers |-> viewers,
                        countries |-> countries,
                        create_missing_refs |-> create_missing_refs,
                        result |-> r.result]
    /\ UNCHANGED << call, envVars, bfsVars, gatherVars, buildVars, handlerVars, lib2Vars >>
    /\ UNCHANGED << dedupVars, environ, normVars, linkVars >>

\* the arguments of the model's calls
LegalTagArgs == { NoStr, Given(""), Given("opendes-Tag") }
OwnersArgs == { NoList, Given(<< >>), Given(<< "me@opendes" >>) }
ViewersArgs == { NoList, Given(<< "all@opendes" >>) }
CountriesArgs == { NoList, Given(<< >>), Given(<< "NO" >>) }
CreateMissingArgs == { NoBool, Given(FALSE) }
ExplicitArgs == { NoList, Given(<< primary_uri(DsPath, TypePathOf(UuidNames[1]), UuidNames[1]) >>) }
ParamRows == { << >>, << [isdict |-> TRUE, uri |-> primary_uri(DsPath, TypePathOf(UuidNames[2]), UuidNames[2])] >> }

BuildManifestParams ==
    call = "params" /\ \E legal_tag \in LegalTagArgs, owners \in OwnersArgs,
        viewers \in ViewersArgs, countries \in CountriesArgs,
        create_missing_refs \in CreateMissingArgs, explicit \in ExplicitArgs,
        use_all_resources \in BOOLEAN, stList \in { StatusOk, 500 },
        rows \in ParamRows, stPost \in { StatusOk, 500 } :
            BuildManifestParamsOn(legal_tag, owners, viewers, countries,
                create_missing_refs, explicit, use_all_resources, stList, rows, stPost)

\* the keys create_dataspace reserves (line 86)
ReservedKeys == { "legaltags", "otherRelevantDataCountries", "viewers", "owners" }

\* create_dataspace without the pops of line 86-87: custom.update(extra_custom)
\* alone, by which a reserved key of extra_custom replaces the argument's value
create_dataspace_update_only(path, legal_tag, owners, viewers, countries, extra_custom, st) ==
    LET custom == [legaltags |-> << legal_tag >>,
                   otherRelevantDataCountries |-> countries,
                   viewers |-> viewers,
                   owners |-> owners]
    IN  [extra_custom |-> extra_custom,
         payload |-> << [DataspaceId |-> path, Path |-> path,
                         CustomData |-> extra_custom @@ custom] >>,
         result |-> IF st = StatusOk THEN "returned"
                    ELSE IF IsHttpError(st) THEN "HTTPStatusError"
                    ELSE "TransportError"]

\* create_dataspace lines 78-98: extra_custom after the pops, the payload, and
\* how the call ends under the answer st to the POST. A dict is a function of
\* its keys; None or {} is the empty function.
create_dataspace(path, legal_tag, owners, viewers, countries, extra_custom, st) ==
    LET custom == [legaltags |-> << legal_tag >>,
                   otherRelevantDataCountries |-> countries,
                   viewers |-> viewers,
                   owners |-> owners]
        popped == [k \in (DOMAIN extra_custom) \ ReservedKeys |-> extra_custom[k]]
        merged == IF DOMAIN extra_custom # {} THEN popped @@ custom ELSE custom
    IN  [extra_custom |-> popped,
         payload |-> << [DataspaceId |-> path, Path |-> path, CustomData |-> merged] >>,
         result |-> IF st = StatusOk THEN "returned"
                    ELSE IF IsHttpError(st) THEN "HTTPStatusError"
                    ELSE "TransportError"]

\* the extra_custom dicts of the model: none, a free key, a reserved key
ExtraCustoms ==
    { << >>,
      [k \in { "note" } |-> "survey 2019"],
      [k \in { "note", "owners" } |-> IF k = "note" THEN "survey 2019"
                                      ELSE << "intruder@opendes" >>] }

CreateDataspaceOn(legal_tag, owners, viewers, countries, extra_custom, st) ==
    /\ LET c == create_dataspace(DsPath, legal_tag, owners, viewers, countries,
                                 extra_custom, st)
       IN  /\ pbody' = c.payload
           /\ pcall' = [fn |-> "create_dataspace", legal_tag |-> legal_tag,
                        owners |-> owners, viewers |-> viewers,
                        countries |-> countries,
                        extra_given |-> extra_custom,
                        extra_custom |-> c.extra_custom, result |-> c.result]
    /\ UNCHANGED << call, envVars, bfsVars, gatherVars, buildVars, handlerVars, lib2Vars >>
    /\ UNCHANGED << dedupVars, environ, DEFAULTS, normVars, linkVars >>

\* dataspaces_create passes the form's legal tag and the comma-separated lists
\* (main.py lines 202-210); the form fields default to the process defaults
CreateDataspace ==
    call = "params" /\ \E legal_tag \in { "", "opendes-Tag", DEFAULTS.DEFAULT_LEGAL_TAG },
        owners \in { << >>, << "me@opendes" >>, DEFAULTS.DEFAULT_OWNERS },
        viewers \in { DEFAULTS.DEFAULT_VIEWERS },
        countries \in { << "NO" >>, DEFAULTS.DEFAULT_COUNTRIES },
        extra_custom \in ExtraCustoms, st \in Statuses :
            CreateDataspaceOn(legal_tag, owners, viewers, countries, extra_custom, st)

InitParams ==
    /\ call = "params"
    /\ store = [u \in Uuids |-> << >>]
    /\ environ \in Environs
    /\ DEFAULTS = StartupDefaults(environ)
    /\ pcall = [fn |-> "none"]
    /\ pbody = << >>
    /\ EnvIdle /\ BfsIdle /\ GatherIdle /\ BuildIdle /\ HandlerIdle /\ DedupIdle
    /\ NormIdle /\ LinkIdle /\ Lib2Idle

NextParams == BuildManifestParams \/ CreateDataspace

SpecParams == InitParams /\ [][NextParams]_vars

\* C11: after any sequence of build_manifest and create_dataspace calls the
\* process-wide defaults hold the values they had at start-up
C11_DefaultsNeverMutate ==
    call = "params" => DEFAULTS = StartupDefaults(environ)

\* reached: both operations were called, one with overrides of every field and
\* one that failed
C11_Witness ==
    /\ pcall.fn = "build_manifest"
    /\ pcall.legal_tag.given /\ pcall.owners.given /\ pcall.viewers.given
    /\ pcall.countries.given /\ pcall.owners.value # << >>
    /\ pcall.result = "HTTPStatusError"
    /\ pbody # << >>
    /\ pbody[1].acl.owners # DEFAULTS.DEFAULT_OWNERS

\* C12: the value the caller passes for legal tag, owners, viewers, countries
\* is the value in the request body, empty ones included; the default is used
\* only for a field not supplied; createMissingReferences is true if not supplied
C12_CallerValueInBody ==
    (pcall.fn = "build_manifest" /\ pbody # << >>) =>
        /\ pbody[1].legal.legaltags =
              << IF pcall.legal_tag.given THEN pcall.legal_tag.value
                 ELSE DEFAULTS.DEFAULT_LEGAL_TAG >>
        /\ pbody[1].acl.owners =
              IF pcall.owners.given THEN pcall.owners.value ELSE DEFAULTS.DEFAULT_OWNERS
        /\ pbody[1].acl.viewers =
              IF pcall.viewers.given THEN pcall.viewers.value ELSE DEFAULTS.DEFAULT_VIEWERS
        /\ pbody[1].legal.otherRelevantDataCountries =
              IF pcall.countries.given THEN pcall.countries.value
              ELSE DEFAULTS.DEFAULT_COUNTRIES
        /\ (~pcall.create_missing_refs.given => pbody[1].createMissingReferences)

(***************************************************************************)
(* The reference normalizer as pure functions: _type_from_content_type,    *)
(* uri_from_ref, the primary URI of a selection, _dataspace_uri, and the   *)
(* id extraction of keys_objects (main.py lines 564-569).                  *)
(***************************************************************************)
\* s.rstrip(")")
RECURSIVE RStripParen(_)
RStripParen(s) ==
    IF Len(s) > 0 /\ SubSeq(s, Len(s), Len(s)) = ")"
    THEN RStripParen(SubSeq(s, 1, Len(s) - 1))
    ELSE s

\* keys_objects lines 566-569: the id of a row that has only a uri
IdFromUri(uri) ==
    IF Contains(uri, "(") /\ Contains(uri, ")")
    THEN LET parts == Split(uri, "(") IN RStripParen(parts[Len(parts)])
    ELSE uri

\* the MIME type of the content types of a namespace
MimeOf(ns) == IF ns = "eml20" THEN "application/x-eml+xml" ELSE "application/x-resqml+xml"
Namespaces == { "resqml20", "eml20" }
Suffixes == Range(TypeSuffixes)

\* ids of references; "" is an absent id
NormIds == { "", "u1", "f9585655-83d8-4549-ae3e-2dffc2cd5937" }

\* the raw references of the model. form says how the content type carries
\* the type: "last" (..;version=2.0;type=obj_X), "first" (..;type=obj_X;
\* version=2.0), "dotted" (..;type=<ns>.obj_X), "none" (no type segment)
RawRef(form, ns, suffix, uuid) ==
    [kind |-> "ref", form |-> form, ns |-> ns, suffix |-> suffix, typ |-> None,
     uuid |-> uuid,
     ct |-> CASE form = "last" -> MimeOf(ns) \o ";version=2.0;type=" \o suffix
              [] form = "first" -> MimeOf(ns) \o ";type=" \o suffix \o ";version=2.0"
              [] form = "dotted" -> MimeOf(ns) \o ";version=2.0;type=" \o ns \o "." \o suffix
              [] OTHER -> "application/octet-stream"]

\* a selection (typ, uuid) of gather_selected_uris_with_refs
RawSelection(ns, suffix, uuid) ==
    [kind |-> "selection", form |-> "none", ns |-> ns, suffix |-> suffix,
     typ |-> ns \o "." \o suffix, uuid |-> uuid, ct |-> ""]

RawDataspace ==
    [kind |-> "dataspace", form |-> "none", ns |-> None, suffix |-> None,
     typ |-> None, uuid |-> None, ct |-> ""]

NormInputs ==
    { RawRef(f, ns, sx, id) : f \in { "last", "first", "dotted", "none" },
                              ns \in Namespaces, sx \in Suffixes, id \in NormIds }
      \cup { RawSelection(ns, sx, id) : ns \in Namespaces, sx \in Suffixes,
                                        id \in NormIds \ { "" } }
      \cup { RawDataspace }

\* what the engine makes of a raw reference: (typePath, id, uri)
normalize(raw) ==
    CASE raw.kind = "ref" ->
            LET u == uri_from_ref(DsPath, raw.ct, raw.uuid)
            IN  IF u = None THEN [typ |-> None, id |-> None, uri |-> None]
                ELSE [typ |-> _type_from_content_type(raw.ct), id |-> raw.uuid, uri |-> u]
      [] raw.kind = "selection" ->
            [typ |-> raw.typ, id |-> raw.uuid,
             uri |-> primary_uri(DsPath, raw.typ, raw.uuid)]
      [] OTHER -> [typ |-> None, id |-> None, uri |-> _dataspace_uri(DsPath)]

\* a canonical triple as a raw reference again: a content type that carries
\* the type name, and the id taken from the URI as keys_objects takes it
RawFromCanonical(c) ==
    LET ns == IF StartsWith(c.typ, "eml20.") THEN "eml20" ELSE "resqml20"
    IN  [kind |-> "ref", form |-> "dotted", ns |-> ns, suffix |-> None, typ |-> None,
         uuid |-> IdFromUri(c.uri),
         ct |-> MimeOf(ns) \o ";version=2.0;type=" \o c.typ]

Normalize ==
    /\ call = "normalize" /\ npc = "given"
    /\ nout' = << normalize(nin) >>
    /\ npc' = "normalized"
    /\ UNCHANGED << call, envVars, bfsVars, gatherVars, buildVars, handlerVars, lib2Vars >>
    /\ UNCHANGED << dedupVars, paramVars, nin, linkVars >>

Renormalize ==
    /\ call = "normalize" /\ npc = "normalized"
    /\ nin.kind # "dataspace" /\ nout[1].uri # None
    /\ nout' = Append(nout, normalize(RawFromCanonical(nout[1])))
    /\ npc' = "again"
    /\ UNCHANGED << call, envVars, bfsVars, gatherVars, buildVars, handlerVars, lib2Vars >>
    /\ UNCHANGED << dedupVars, paramVars, nin, linkVars >>

InitNorm ==
    /\ call = "normalize"
    /\ store = [u \in Uuids |-> << >>]
    /\ nin \in NormInputs
    /\ nout = << >>
    /\ npc = "given"
    /\ EnvIdle /\ BfsIdle /\ GatherIdle /\ BuildIdle /\ HandlerIdle /\ DedupIdle
    /\ ParamIdle /\ LinkIdle /\ Lib2Idle

NextNorm == Normalize \/ Renormalize

SpecNorm == InitNorm /\ [][NextNorm]_vars

\* C13: every object URI the engine produces is
\* eml:///dataspace('<path>')/<typePath>('<id>'), the id in single quotes, and
\* the dataspace-only URI is eml:///dataspace('<path>')
C13_UriGrammar ==
    (call = "normalize" /\ npc # "given") =>
        /\ (nin.kind = "dataspace" => nout[1].uri = "eml:///dataspace('demo/Volve')")
        /\ (nin.kind # "dataspace" /\ nout[1].uri # None) =>
              nout[1].uri = "eml:///dataspace('demo/Volve')/" \o nout[1].typ
                                \o "('" \o nout[1].id \o "')"

\* C14: a content type with a segment type=obj_<Suffix> maps to
\* <namespace>.obj_<Suffix>, resqml20 for a RESQML content type and eml20 for
\* an EML one, with no other content-type parameter appended
C14_TypeFromContentType ==
    (call = "normalize" /\ npc # "given" /\ nin.kind = "ref"
        /\ nin.form \in { "last", "first" } /\ nin.uuid # "") =>
            nout[1].typ = (IF Contains(nin.ct, "resqml") THEN "resqml20" ELSE "eml20")
                              \o "." \o nin.suffix

\* C16: normalizing a canonical (typePath, id, uri) re-encoded as a raw
\* reference yields the same triple: the id parsed back from the URI is the id
\* it was built from, and a content type carrying the canonical type name
\* gives that type name
C16_NormalizeFixedPoint ==
    (call = "normalize" /\ npc = "again") => nout[2] = nout[1]

\* the URI a DataObjectReference dict of a fetched object normalizes to
DorUri(dor) == uri_from_ref(DsPath, dor.ContentType, dor.UUID)

\* C15: a reference that cannot be normalized has no URI (None) and is
\* skipped alone: the references that can be normalized, those after it in the
\* same object included, are in the result, and the resolution does not fail
C15_MalformedRefSkipped ==
    /\ DorUri(BadDor) = None
    /\ gpc = "raised" => errs # {}
    /\ gpc = "returned" =>
          \A k \in 1..Len(fetched) : \A j \in 1..Len(fetched[k]) :
              DorUri(fetched[k][j]) # None => DorUri(fetched[k][j]) \in Range(out)

\* reached: a fetched object holds the dict without a type and, after it, a
\* reference to a RESQML object, whose URI is returned
C15_Witness ==
    /\ gpc = "returned"
    /\ \E k \in 1..Len(fetched) :
          /\ Len(fetched[k]) = 2
          /\ fetched[k][1] = BadDor
          /\ fetched[k][2] = Dor(UuidNames[2])
          /\ DorUri(fetched[k][2]) \in Range(out)

(***************************************************************************)
(* schemahandler.py: the link scanner (_looks_like_osdu_id,                *)
(* _role_from_path, _walk_collect_ids, extract_osdu_links).                *)
(***************************************************************************)
MaxProps == 2

Letters == "abcdefghijklmnopqrstuvwxyz"
Capitals == "ABCDEFGHIJKLMNOPQRSTUVWXYZ"
Digits == { "0", "1", "2", "3", "4", "5", "6", "7", "8", "9" }
Chars(s) == { SubSeq(s, i, i) : i \in 1..Len(s) }

\* \w of the regular expression, for ASCII text
WordChars == Chars(Letters) \cup Chars(Capitals) \cup Digits \cup { "_" }

\* every character of s is in the class cs
AllIn(s, cs) == \A i \in 1..Len(s) : SubSeq(s, i, i) \in cs

\* s.lower()
RECURSIVE Lower(_)
Lower(s) ==
    IF Len(s) = 0 THEN s
    ELSE LET c == SubSeq(s, 1, 1)
             i == Find(Capitals, c)
         IN  (IF i # 0 THEN SubSeq(Letters, i, i) ELSE c) \o Lower(SubSeq(s, 2, Len(s)))

\* (?:(?:work-product(?:-component)?)|master-data)--[\w\-]+ on a whole segment
KindSegment(seg) ==
    \E pre \in { "work-product-component--", "work-product--", "master-data--" } :
        /\ StartsWith(seg, pre)
        /\ Len(seg) > Len(pre)
        /\ AllIn(SubSeq(seg, Len(pre) + 1, Len(seg)), WordChars \cup { "-" })

\* _OSDU_ID_RE.match(s): ^[\w\-.]+:<kind>--[\w\-]+:[\w\-.:%]+:[0-9]+$
OSDU_ID_RE(s) ==
    LET parts == Split(s, ":")
        n == Len(parts)
    IN  /\ n >= 4
        /\ Len(parts[1]) > 0 /\ AllIn(parts[1], WordChars \cup { "-", "." })
        /\ KindSegment(parts[2])
        /\ \A i \in 3..(n - 1) : AllIn(parts[i], WordChars \cup { "-", ".", "%" })
        /\ (n = 4 => Len(parts[3]) > 0)
        /\ Len(parts[n]) > 0 /\ AllIn(parts[n], Digits)

\* _looks_like_osdu_id without the test for a reference-data-- segment
_looks_like_osdu_id_regex_only(s) == OSDU_ID_RE(Strip(s))

\* _looks_like_osdu_id, for a str
_looks_like_osdu_id(s) ==
    IF Contains(s, "reference-data--") THEN FALSE ELSE OSDU_ID_RE(Strip(s))

\* _role_from_path
_role_from_path(path) ==
    LET p == Lower(path)
    IN  IF Contains(p, "riskids") THEN "risk"
        ELSE IF Contains(p, "prioractivityids") THEN "prior-activity"
        ELSE IF Contains(p, "parentworkproductid") THEN "parent-work-product"
        ELSE IF Contains(p, "parentobjectid") THEN "parent-object"
        ELSE IF Contains(p, "parameters") /\ Contains(p, "objectparameterkey")
             THEN "parameter-object"
        ELSE IF Contains(p, "ancestry.parents") THEN "ancestry-parent"
        ELSE IF Contains(p, "ancestry.children") THEN "ancestry-child"
        ELSE "ref"

\* JSON values: a str, a list (items <<"", value>>), a dict (items
\* <<key, value>> in insertion order)
JStr(s) == [t |-> "str", s |-> s, items |-> << >>]
JList(vs) == [t |-> "list", s |-> "", items |-> [i \in 1..Len(vs) |-> << "", vs[i] >>]]
JDict(kvs) == [t |-> "dict", s |-> "", items |-> kvs]

\* str(i) for the list positions of the model
IndexStr(i) == << "0", "1", "2", "3" >>[i + 1]

\* d.get(key) for a dict d; the empty dict where the key is absent or falsy
GetOrEmpty(d, key) ==
    IF \E i \in 1..Len(d.items) : d.items[i][1] = key
    THEN LET v == d.items[CHOOSE i \in 1..Len(d.items) : d.items[i][1] = key][2]
         IN  IF (v.t = "str" /\ v.s = "") \/ (v.t # "str" /\ v.items = << >>)
             THEN JDict(<< >>) ELSE v
    ELSE JDict(<< >>)

\* _walk_collect_ids(x, base): the dicts it yields, in order. WalkFrom walks
\* the items of x from position i on.
RECURSIVE _walk_collect_ids(_, _), WalkFrom(_, _, _)
WalkFrom(x, base, i) ==
    IF i > Len(x.items) THEN << >>
    ELSE LET k == x.items[i][1]
             v == x.items[i][2]
             sub == IF x.t = "dict"
                    THEN (IF base # "" THEN base \o "." \o k ELSE k)
                    ELSE base \o "[" \o IndexStr(i - 1) \o "]"
             rolePath == IF x.t = "dict" THEN sub ELSE base
         IN  (IF v.t = "str" /\ _looks_like_osdu_id(v.s)
              THEN << [id |-> v.s, role |-> _role_from_path(rolePath),
                       source_path |-> sub] >>
              ELSE _walk_collect_ids(v, sub))
                 \o WalkFrom(x, base, i + 1)

_walk_collect_ids(x, base) ==
    IF x.t \in { "dict", "list" } THEN WalkFrom(x, base, 1) ELSE << >>

\* extract_osdu_links lines 93-98: the links of one ancestry list
RECURSIVE AncestryLinks(_, _, _)
AncestryLinks(vs, role, path) ==
    IF vs = << >> THEN << >>
    ELSE (IF vs[1][2].t = "str" /\ _looks_like_osdu_id(vs[1][2].s)
          THEN << [id |-> vs[1][2].s, role |-> role, source_path |-> path] >>
          ELSE << >>) \o AncestryLinks(Tail(vs), role, path)

\* the dedup loop keyed by (id, role, source_path)
RECURSIVE UniqLinksByPath(_, _, _)
UniqLinksByPath(ls, seenKeys, uniq) ==
    IF ls = << >> THEN uniq
    ELSE IF << ls[1].id, ls[1].role, ls[1].source_path >> \in seenKeys
         THEN UniqLinksByPath(Tail(ls), seenKeys, uniq)
         ELSE UniqLinksByPath(Tail(ls),
                 seenKeys \cup { << ls[1].id, ls[1].role, ls[1].source_path >> },
                 Append(uniq, ls[1]))

\* extract_osdu_links lines 104-112: de-duplicate by (id, role)
RECURSIVE UniqLinks(_, _, _)
UniqLinks(ls, seenKeys, uniq) ==
    IF ls = << >> THEN uniq
    ELSE IF << ls[1].id, ls[1].role >> \in seenKeys
         THEN UniqLinks(Tail(ls), seenKeys, uniq)
         ELSE UniqLinks(Tail(ls), seenKeys \cup { << ls[1].id, ls[1].role >> },
                        Append(uniq, ls[1]))

\* extract_osdu_links(data_block): raised where data_block["ancestry"] is a
\* truthy value without .get (line 93 on a str or list)
extract_osdu_links(block) ==
    LET anc == GetOrEmpty(block, "ancestry")
    IN  IF block.t # "dict" THEN [raised |-> FALSE, links |-> << >>]
        ELSE IF anc.t # "dict" THEN [raised |-> TRUE, links |-> << >>]
        ELSE LET parents == GetOrEmpty(anc, "parents")
                 children == GetOrEmpty(anc, "children")
                 found == AncestryLinks(parents.items, "ancestry-parent", "ancestry.parents")
                            \o AncestryLinks(children.items, "ancestry-child", "ancestry.children")
                            \o _walk_collect_ids(block, "")
             IN  [raised |-> FALSE, links |-> UniqLinks(found, {}, << >>)]

\* the strings of the model's data blocks: two record ids, a reference-data
\* id, an id with a reference-data-- segment after a master-data kind, a name
Id1 == "opendes:master-data--Well:w1:1"
Id2 == "opendes:work-product-component--Grid:g1:1"
RefDataId == "opendes:reference-data--UnitOfMeasure:m:1"
RefDataInKind == "opendes:master-data--reference-data--Unit:m:1"

LinkValues ==
    { JStr(Id1), JStr(Id2), JStr(RefDataInKind), JStr("Volve"),
      JList(<< JStr(Id1), JStr(RefDataId) >>),
      JList(<< JDict(<< << "ObjectParameterKey", JStr(Id2) >> >>) >>) }
LinkKeys == { "RiskIDs", "WellID", "Parameters" }

\* the property lists of a data block: distinct keys, in insertion order
PropLists ==
    { ps \in SeqUpTo(LinkKeys \X LinkValues, MaxProps) :
        \A i, j \in 1..Len(ps) : i # j => ps[i][1] # ps[j][1] }

\* what the data block holds under "ancestry": nothing, parents and
\* children, a reference-data parent, a str
Ancestries ==
    { << >>,
      << << "ancestry", JDict(<< << "parents", JList(<< JStr(Id1) >>) >>,
                                 << "children", JList(<< JStr(Id2) >>) >> >>) >> >>,
      << << "ancestry", JDict(<< << "parents", JList(<< JStr(RefDataInKind) >>) >> >>) >> >>,
      << << "ancestry", JStr("n/a") >> >> }

DataBlocks ==
    { JDict(ps \o anc) : ps \in PropLists, anc \in Ancestries }
        \cup { JList(<< JStr(Id1) >>) }

ExtractOsduLinks ==
    /\ call = "links" /\ lpc = "called"
    /\ LET r == extract_osdu_links(data_block)
       IN  /\ links' = r.links
           /\ lpc' = IF r.raised THEN "raised" ELSE "returned"
    /\ UNCHANGED << call, envVars, bfsVars, gatherVars, buildVars, handlerVars, lib2Vars >>
    /\ UNCHANGED << dedupVars, paramVars, normVars, data_block >>

InitLinks ==
    /\ call = "links"
    /\ store = [u \in Uuids |-> << >>]
    /\ data_block \in DataBlocks
    /\ links = << >>
    /\ lpc = "called"
    /\ EnvIdle /\ BfsIdle /\ GatherIdle /\ BuildIdle /\ HandlerIdle /\ DedupIdle
    /\ ParamIdle /\ NormIdle /\ Lib2Idle

NextLinks == ExtractOsduLinks

SpecLinks == InitLinks /\ [][NextLinks]_vars

\* the strings a JSON value holds, at any depth
RECURSIVE StringsOf(_)
StringsOf(x) ==
    IF x.t = "str" THEN { x.s }
    ELSE UNION { StringsOf(x.items[i][2]) : i \in 1..Len(x.items) }

\* C17: extract_osdu_links never returns an identifier with a
\* reference-data-- segment, from any depth of the data block or from
\* ancestry.parents / ancestry.children; a data block that holds only such
\* identifiers yields the empty list
C17_NoReferenceData ==
    lpc = "returned" =>
        /\ \A i \in 1..Len(links) : ~Contains(links[i].id, "reference-data--")
        /\ (\A x \in StringsOf(data_block) : Contains(x, "reference-data--"))
              => links = << >>

\* reached: a data block with a reference-data identifier as a property and as
\* an ancestry parent, and nothing else, was scanned
C17_Witness ==
    /\ lpc = "returned"
    /\ data_block.t = "dict"
    /\ Len(data_block.items) = 2
    /\ data_block.items[2][1] = "ancestry"
    /\ StringsOf(data_block) = { RefDataInKind }
    /\ links = << >>

\* C18: the role of a link is looked up from the dot-path where the id was
\* found (riskids: risk, ancestry.parents: ancestry-parent, ancestry.children:
\* ancestry-child), and a path that matches no table entry gives generic-link
C18_RoleFromPath ==
    lpc = "returned" =>
        \A i \in 1..Len(links) :
            LET p == Lower(links[i].source_path)
                role == links[i].role
            IN  /\ Contains(p, "riskids") => role = "risk"
                /\ Contains(p, "ancestry.parents") => role = "ancestry-parent"
                /\ Contains(p, "ancestry.children") => role = "ancestry-child"
                /\ (\A token \in { "riskids", "prioractivityids", "parentworkproductid",
                                   "parentobjectid", "parameters", "objectparameterkey",
                                   "ancestry.parents", "ancestry.children" } :
                        ~Contains(p, token)) => role = "generic-link"

\* C19: the role takes no part in deduplication: an identifier found at
\* several paths is once in the output, whatever roles the paths map to
C19_OneEntryPerId ==
    lpc = "returned" =>
        \A i, j \in 1..Len(links) : i # j => links[i].id # links[j].id

\* C20: no two entries of the output have the same (id, role), also for
\* ancestry parents/children found by the explicit pass and by the walk; the
\* entry kept is the first found, the one of the explicit ancestry pass
C20_NoDuplicateIdRole ==
    lpc = "returned" =>
        /\ \A i, j \in 1..Len(links) :
              i # j => << links[i].id, links[i].role >> # << links[j].id, links[j].role >>
        /\ \A i \in 1..Len(links) :
              /\ links[i].role = "ancestry-parent" => links[i].source_path = "ancestry.parents"
              /\ links[i].role = "ancestry-child" => links[i].source_path = "ancestry.children"

\* reached: a data block whose ancestry parent and child are met by the
\* explicit pass and again by the walk, next to a property holding an id
C20_Witness ==
    /\ lpc = "returned"
    /\ \E i \in 1..Len(links) : links[i].role = "ancestry-parent" /\ links[i].id = Id1
    /\ \E i \in 1..Len(links) : links[i].role = "ancestry-child" /\ links[i].id = Id2
    /\ \E i \in 1..Len(links) : links[i].role = "risk" /\ links[i].id = Id1
    /\ Id1 \in StringsOf(GetOrEmpty(GetOrEmpty(data_block, "ancestry"), "parents"))

FObj(u, dors) == [isdict |-> TRUE, Uuid |-> u, dors |-> dors]
FOther == [isdict |-> FALSE, Uuid |-> "", dors |-> << >>]

\* a JSON answer: a list of entries, or one entry alone
FList(es) == [islist |-> TRUE, entries |-> es]
FOne(e) == [islist |-> FALSE, entries |-> << e >>]
FEmptyDict == FOne(FObj("", << >>))

\* the DOR dicts a walk over the value meets (dicts and lists are walked)
RECURSIVE DorsOf(_)
DorsOf(es) ==
    IF es = << >> THEN << >>
    ELSE (IF es[1].isdict THEN es[1].dors ELSE << >>) \o DorsOf(Tail(es))

\* resqml_graph._get_resource line 41: js[0] if isinstance(js, list) and js else js
js0_if_list(js) ==
    IF js.islist /\ js.entries # << >> THEN FOne(js.entries[1]) ELSE js

\* osdu.get_resource line 199: r.json() or {}
json_or_empty(js) ==
    IF js.islist /\ js.entries = << >> THEN FEmptyDict ELSE js

\* keys_object lines 588-590: the first dict of a list, else {}
RECURSIVE first_dict(_)
first_dict(es) ==
    IF es = << >> THEN FEmptyDict
    ELSE IF es[1].isdict THEN FOne(es[1]) ELSE first_dict(Tail(es))

\* the uuids of a list of references
RECURSIVE RefUuids(_)
RefUuids(refs) ==
    IF refs = << >> THEN << >> ELSE << refs[1].uuid >> \o RefUuids(Tail(refs))

\* bfs lines 87, 100: the object fetched and its targets
fetch_graph(js) ==
    LET obj == js0_if_list(js)
    IN  [obj |-> obj, refs |-> RefUuids(_extract_refs(DorsOf(obj.entries)))]

\* keys_object lines 585-597: obj and edges
fetch_keys(js) ==
    LET got == json_or_empty(js)
        obj == IF got.islist THEN first_dict(got.entries) ELSE got
    IN  IF ~obj.entries[1].isdict THEN [obj |-> obj, refs |-> << >>]
        ELSE [obj |-> obj, refs |-> RefUuids(extract_refs(DorsOf(obj.entries)))]

\* gather_selected_uris_with_refs lines 344-345: obj and its references
fetch_gather(js) ==
    LET obj == json_or_empty(js)
    IN  [obj |-> obj, refs |-> RefUuids(extract_refs(DorsOf(obj.entries)))]

\* the answers of the model to a fetch of FetchedUuid
FetchedUuid == UuidNames[1]
FetchEntries ==
    { FObj(UuidNames[1], << Dor(UuidNames[2]) >>),
      FObj(UuidNames[2], << Dor(UuidNames[3]) >>),
      FOther }
FetchAnswers ==
    { FList(es) : es \in SeqUpTo(FetchEntries, MaxList) }
        \cup { FOne(FObj(UuidNames[1], << Dor(UuidNames[2]) >>)) }

FetchBy(who) ==
    /\ call = "fetch" /\ fpc = "given"
    /\ fout' = CASE who = "bfs" -> fetch_graph(fin.js)
                 [] who = "keys_object" -> fetch_keys(fin.js)
                 [] OTHER -> fetch_gather(fin.js)
    /\ fpc' = who
    /\ UNCHANGED << call, envVars, bfsVars, gatherVars, buildVars, handlerVars >>
    /\ UNCHANGED << dedupVars, paramVars, normVars, linkVars >>
    /\ UNCHANGED << depth_given, fin, ingestVars, authVars >>

FetchGraph == FetchBy("bfs")
FetchKeys == FetchBy("keys_object")
FetchGather == FetchBy("gather")

InitFetch ==
    /\ call = "fetch"
    /\ fin \in [uuid : { FetchedUuid }, js : FetchAnswers]
    /\ fout = << >>
    /\ fpc = "given"
    /\ EnvIdle /\ BfsIdle /\ GatherIdle /\ BuildIdle /\ HandlerIdle /\ DedupIdle
    /\ ParamIdle /\ NormIdle /\ LinkIdle
    /\ depth_given = FALSE /\ IngestIdle /\ AuthIdle

NextFetch == FetchGraph \/ FetchKeys \/ FetchGather

SpecFetch == InitFetch /\ [][NextFetch]_vars

\* the entry the fetcher is to use: the one with the requested id, else the
\* first object, else an empty object
RECURSIVE FirstWith(_, _)
FirstWith(es, uuid) ==
    IF es = << >> THEN FObj("", << >>)
    ELSE IF es[1].isdict /\ (uuid = "" \/ es[1].Uuid = uuid) THEN es[1]
    ELSE FirstWith(Tail(es), uuid)

EntryToUse(js, uuid) ==
    IF \E i \in 1..Len(js.entries) : js.entries[i].isdict /\ js.entries[i].Uuid = uuid
    THEN FirstWith(js.entries, uuid)
    ELSE FirstWith(js.entries, "")

\* C21: of a list answer the fetcher uses the entry whose id is the requested
\* id, else the first entry that is an object, else an empty object (no
\* references)
C21_ListAnswerEntry ==
    (call = "fetch" /\ fpc # "given" /\ fin.js.islist) =>
        fout.refs = RefUuids(extract_refs(EntryToUse(fin.js, fin.uuid).dors))

\* the requests of the handler that went to the workflow service
WorkflowRequests ==
    { i \in 1..Len(requests) : requests[i].kind = "workflowRun" }

\* the stage the handler ended in, by the requests it sent
StageOrder ==
    /\ response.stage = "validate" =>
            (requests = << >> /\ fetchLog = << >> /\ ~listed.called)
    /\ response.stage = "gather_uris" => requests = << >>
    /\ (response.stage = "build" /\ response.status # "ok") =>
            (Len(requests) = 1 /\ WorkflowRequests = {})
    /\ response.stage = "workflow" => (Len(requests) = 2 /\ WorkflowRequests = { 2 })

\* C25: the stages of dataspaces_manifest run in the order validate, gather
\* URIs, build manifest, submit workflow, each only after every earlier one
\* succeeded: a failed validation sends no remote request, a failed gathering
\* no build and no workflow request, a failed build no workflow request; and
\* the response of a failed request names the stage that failed
C25_StagesInOrderNamed ==
    (call = "dataspaces_manifest" /\ hpc = "done" /\ response.status # "HTTPException") =>
        /\ StageOrder
        /\ response.status \in { "ok", "error" }
        /\ response.stage \in { "validate", "gather_uris", "build", "workflow" }

\* C28: in the payload of create_dataspace the reserved CustomData keys
\* legaltags, otherRelevantDataCountries, viewers and owners hold the values of
\* the arguments legal_tag, countries, viewers and owners for every
\* extra_custom; the other keys of extra_custom are added
C28_ReservedKeysFromArguments ==
    pcall.fn = "create_dataspace" =>
        LET custom == pbody[1].CustomData
        IN  /\ custom.legaltags = << pcall.legal_tag >>
            /\ custom.otherRelevantDataCountries = pcall.countries
            /\ custom.viewers = pcall.viewers
            /\ custom.owners = pcall.owners
            /\ \A k \in (DOMAIN pcall.extra_given) \ ReservedKeys :
                    k \in DOMAIN custom /\ custom[k] = pcall.extra_given[k]

\* reached: extra_custom carried a reserved key with another value and a free
\* key; the payload has the argument under the one and the value of the other
C28_Witness ==
    /\ pcall.fn = "create_dataspace"
    /\ "owners" \in DOMAIN pcall.extra_given
    /\ pcall.extra_given["owners"] # pcall.owners
    /\ pbody[1].CustomData.owners = pcall.owners
    /\ "note" \in DOMAIN pbody[1].CustomData

(***************************************************************************)
(* ingest_router.py: POST /manifest/ingest, GET /manifest/last             *)
(***************************************************************************)
_MAX_ITEMS == 100

\* how many POST /manifest/ingest requests a behaviour holds
MaxIngests == 2

\* values of body["manifest"]: absent (None), a string, a JSON object
NoManifest == [isdict |-> FALSE, name |-> "None"]
TextManifest == [isdict |-> FALSE, name |-> "text"]
Manifest(name) == [isdict |-> TRUE, name |-> name]

\* request bodies: no JSON; JSON that is no object (a list); an object
InvalidJson == [json |-> FALSE, isdict |-> FALSE, manifest |-> NoManifest]
ArrayBody == [json |-> TRUE, isdict |-> FALSE, manifest |-> NoManifest]
ObjectBody(m) == [json |-> TRUE, isdict |-> TRUE, manifest |-> m]

\* Python's a or b on strings ("" stands for None and for the empty string)
OrStr(a, b) == IF a # "" THEN a ELSE b

\* _find_access_token lines 18-41. t holds what the request carries: the two
\* session entries, request.state.access_token, the Authorization header and
\* the access_token cookie
_find_access_token(t) ==
    LET a1 == OrStr(t.session_access_token, t.session_token)
        a2 == IF a1 = "" THEN t.state ELSE a1
        auth == t.Authorization
        a3 == IF a2 = ""
              THEN IF auth # "" /\ StartsWith(Lower(auth), "bearer ")
                   THEN SubSeq(auth, Find(auth, " ") + 1, Len(auth))
                   ELSE a2
              ELSE a2
    IN  IF a3 = "" THEN t.cookie ELSE a3

\* lines 59-66 with the pop taking the newest key instead of the oldest
store_manifest_pop_newest(M, manifest_id, manifest) ==
    LET added == Append(M, << manifest_id, manifest >>)
    IN  IF Len(added) > _MAX_ITEMS THEN SubSeq(added, 1, Len(added) - 1) ELSE added

\* lines 59-66: _MANIFESTS[manifest_id] = manifest, then the oldest key is
\* popped when the dict holds more than _MAX_ITEMS (a dict keeps insertion order)
store_manifest(M, manifest_id, manifest) ==
    LET added == Append(M, << manifest_id, manifest >>)
    IN  IF Len(added) > _MAX_ITEMS THEN Tail(added) ELSE added

\* lines 51-70 with the store moved behind the token lookup
ingest_manifest_token_first(M, manifest_id, body, t) ==
    IF ~body.json THEN [status |-> 400, M |-> M, stored |-> FALSE, token |-> ""]
    ELSE IF ~body.isdict THEN [status |-> 500, M |-> M, stored |-> FALSE, token |-> ""]
    ELSE IF ~body.manifest.isdict
    THEN [status |-> 400, M |-> M, stored |-> FALSE, token |-> ""]
    ELSE IF _find_access_token(t) = ""
    THEN [status |-> 401, M |-> M, stored |-> FALSE, token |-> ""]
    ELSE [status |-> 0, M |-> store_manifest(M, manifest_id, body.manifest),
          stored |-> TRUE, token |-> _find_access_token(t)]

\* ingest_manifest lines 51-70, from the body read to the call of
\* submit_workflow_run: the status the request ends with (0: it goes on to
\* the workflow call), _MANIFESTS afterwards, whether the manifest was stored,
\* and the token. body.get of a body that is no object raises AttributeError,
\* which no handler catches: the answer is 500
ingest_manifest(M, manifest_id, body, t) ==
    IF ~body.json THEN [status |-> 400, M |-> M, stored |-> FALSE, token |-> ""]
    ELSE IF ~body.isdict THEN [status |-> 500, M |-> M, stored |-> FALSE, token |-> ""]
    ELSE IF ~body.manifest.isdict
    THEN [status |-> 400, M |-> M, stored |-> FALSE, token |-> ""]
    ELSE LET M2 == store_manifest(M, manifest_id, body.manifest)
             access_token == _find_access_token(t)
         IN  IF access_token = ""
             THEN [status |-> 401, M |-> M2, stored |-> TRUE, token |-> ""]
             ELSE [status |-> 0, M |-> M2, stored |-> TRUE, token |-> access_token]

\* get_last_manifest lines 94-99
get_last_manifest(M) ==
    IF M = << >> THEN [status |-> 404, manifestId |-> 0, manifest |-> NoManifest]
    ELSE [status |-> StatusOk, manifestId |-> M[Len(M)][1], manifest |-> M[Len(M)][2]]

\* what a request carries as credentials
Creds(sa, st, state, auth, cookie) ==
    [session_access_token |-> sa, session_token |-> st, state |-> state,
     Authorization |-> auth, cookie |-> cookie]

NoCreds == Creds("", "", "", "", "")
AllCreds == Creds("sessA", "sessT", "stateT", "Bearer hdrT", "cookT")

CredInputs ==
    { NoCreds,
      Creds("", "", "", "Basic dXNlcg==", ""),
      Creds("", "", "", "Bearer ", ""),
      AllCreds,
      Creds("", "sessT", "stateT", "", ""),
      Creds("", "", "stateT", "bearer hdrT", "cookT"),
      Creds("", "", "", "BEARER hdrT", "cookT"),
      Creds("", "", "", "Token hdrT", "cookT") }

\* the requests of the model, as << body, credentials >>: until a request has
\* stored a manifest they draw from every kind of body and of credentials,
\* afterwards from fewer
FirstInputs ==
    { << b, NoCreds >> : b \in { InvalidJson, ArrayBody, ObjectBody(NoManifest),
                                 ObjectBody(TextManifest) } }
        \cup { << ObjectBody(Manifest("mA")), t >> : t \in CredInputs }
LaterInputs ==
    { << ArrayBody, NoCreds >>, << ObjectBody(TextManifest), NoCreds >>,
      << ObjectBody(Manifest("mB")), NoCreds >>,
      << ObjectBody(Manifest("mB")), AllCreds >> }

\* a request arrives; the handler waits for its body (line 50)
IngestArrive ==
    /\ call = "ingest"
    /\ Len(ireqs) < MaxIngests
    /\ ireqs' = Append(ireqs, [body |-> InvalidJson, creds |-> NoCreds, pc |-> "json",
                               status |-> 0, manifestId |-> 0, token |-> ""])
    /\ UNCHANGED << MANIFESTS, wfcalls, stored, last >>
    /\ UNCHANGED << call, envVars, bfsVars, gatherVars, buildVars, handlerVars >>
    /\ UNCHANGED << dedupVars, paramVars, normVars, linkVars >>
    /\ UNCHANGED << depth_given, fetchVars, authVars >>

\* lines 50-72 of request i once its body is read, which run without another
\* await: body check, store, token lookup, and the call of
\* submit_workflow_run (which sends the request). body is what request.json()
\* gave, t the credentials the request carries
IngestStoreOn(i, body, t) ==
    /\ call = "ingest"
    /\ ireqs[i].pc = "json"
    /\ LET manifest_id == Len(stored) + 1
           r == ingest_manifest(MANIFESTS, manifest_id, body, t)
       IN  /\ MANIFESTS' = r.M
           /\ stored' = IF r.stored
                        THEN Append(stored, [id |-> manifest_id,
                                             manifest |-> body.manifest, req |-> i])
                        ELSE stored
           /\ ireqs' = [ireqs EXCEPT ![i] =
                            [body |-> body, creds |-> t,
                             pc |-> IF r.status = 0 THEN "workflow" ELSE "done",
                             status |-> r.status,
                             manifestId |-> IF r.stored THEN manifest_id ELSE 0,
                             token |-> r.token]]
           /\ wfcalls' = IF r.status = 0
                         THEN Append(wfcalls, [req |-> i, access_token |-> r.token,
                                               manifest |-> body.manifest])
                         ELSE wfcalls
    /\ UNCHANGED last
    /\ UNCHANGED << call, envVars, bfsVars, gatherVars, buildVars, handlerVars >>
    /\ UNCHANGED << dedupVars, paramVars, normVars, linkVars >>
    /\ UNCHANGED << depth_given, fetchVars, authVars >>

IngestStore ==
    call = "ingest" /\ \E i \in 1..Len(ireqs) :
        ireqs[i].pc = "json" /\ \E in \in (IF stored = << >> \/ stored[Len(stored)].req = 0
                                              THEN FirstInputs ELSE LaterInputs) :
            IngestStoreOn(i, in[1], in[2])

\* lines 72-92: the workflow service answered request i with st (or not at
\* all); submit_workflow_run raises httpx errors only, which end in 502
IngestWorkflowAnswer(i, st) ==
    /\ call = "ingest"
    /\ ireqs[i].pc = "workflow"
    /\ ireqs' = [ireqs EXCEPT ![i] =
                    [@ EXCEPT !.pc = "done",
                              !.status = IF st = StatusOk THEN StatusOk ELSE 502]]
    /\ UNCHANGED << MANIFESTS, wfcalls, stored, last >>
    /\ UNCHANGED << call, envVars, bfsVars, gatherVars, buildVars, handlerVars >>
    /\ UNCHANGED << dedupVars, paramVars, normVars, linkVars >>
    /\ UNCHANGED << depth_given, fetchVars, authVars >>

\* GET /manifest/last; n is how many manifests had been stored by then
GetLastManifest ==
    /\ call = "ingest"
    /\ last' = [answer |-> get_last_manifest(MANIFESTS), n |-> Len(stored)]
    /\ UNCHANGED << MANIFESTS, ireqs, wfcalls, stored >>
    /\ UNCHANGED << call, envVars, bfsVars, gatherVars, buildVars, handlerVars >>
    /\ UNCHANGED << dedupVars, paramVars, normVars, linkVars >>
    /\ UNCHANGED << depth_given, fetchVars, authVars >>

\* the store after n earlier requests that each stored the manifest m0
StoreAfter(n) == [k \in 1..n |-> << k, Manifest("m0") >>]

InitIngest ==
    /\ call = "ingest"
    /\ MANIFESTS \in { StoreAfter(0), StoreAfter(_MAX_ITEMS - 1) }
    /\ stored = [k \in 1..Len(MANIFESTS) |->
                    [id |-> MANIFESTS[k][1], manifest |-> MANIFESTS[k][2], req |-> 0]]
    /\ ireqs = << >> /\ wfcalls = << >>
    /\ last = [answer |-> get_last_manifest(<< >>), n |-> 0]
    /\ EnvIdle /\ BfsIdle /\ GatherIdle /\ BuildIdle /\ HandlerIdle /\ DedupIdle
    /\ ParamIdle /\ NormIdle /\ LinkIdle
    /\ depth_given = FALSE /\ FetchIdle /\ AuthIdle

NextIngest ==
    \/ IngestArrive
    \/ IngestStore
    \/ \E i \in 1..Len(ireqs), st \in { StatusOk, 500, NoResponse } :
            IngestWorkflowAnswer(i, st)
    \/ GetLastManifest

SpecIngest == InitIngest /\ [][NextIngest]_vars

\* the entries of q from position a on
From(q, a) == SubSeq(q, a, Len(q))

\* C26: after any sequence of ingest requests, interleaved ones included,
\* _MANIFESTS holds at most _MAX_ITEMS manifests, which are the most recently
\* stored ones in the order stored (the oldest is evicted); GET /manifest/last
\* answers with the manifest stored last, and with 404 only if none was stored
C26_StoreHoldsMostRecent ==
    call = "ingest" =>
        LET keep == Min(Len(stored), _MAX_ITEMS)
            recent == From(stored, Len(stored) - keep + 1)
        IN  /\ Len(MANIFESTS) <= _MAX_ITEMS
            /\ Len(MANIFESTS) = keep
            /\ \A k \in 1..keep : MANIFESTS[k] = << recent[k].id, recent[k].manifest >>
            /\ (last.answer.status = 404) = (last.n = 0)
            /\ last.n > 0 =>
                    /\ last.answer.status = StatusOk
                    /\ last.answer.manifestId = stored[last.n].id
                    /\ last.answer.manifest = stored[last.n].manifest

\* reached: more than _MAX_ITEMS manifests were stored, two of them by
\* requests whose bodies were read in the other order than they arrived, the
\* oldest was evicted, and GET /manifest/last answered after the last store
C26_Witness ==
    /\ call = "ingest"
    /\ Len(stored) > _MAX_ITEMS
    /\ Len(MANIFESTS) = _MAX_ITEMS
    /\ MANIFESTS[1][1] = 2
    /\ \E i, j \in 1..Len(ireqs) :
            /\ i < j
            /\ ireqs[j].manifestId # 0
            /\ ireqs[i].manifestId > ireqs[j].manifestId
    /\ last.n = Len(stored)
    /\ last.answer.manifestId = Len(stored)

\* the entries request i has put into _MANIFESTS so far
EntriesOf(i) == { k \in 1..Len(stored) : stored[k].req = i }

\* the workflow requests sent for request i
CallsOf(i) == { k \in 1..Len(wfcalls) : wfcalls[k].req = i }

\* C30: the manifest is stored before the token lookup and the workflow call:
\* every request whose body carries a manifest object has added exactly one
\* entry, holding that manifest, whatever its outcome (401 and 502 included);
\* the entry stays in the store and, while it is the newest, it is the answer
\* of GET /manifest/last
C30_ManifestStoredWhateverOutcome ==
    call = "ingest" =>
        \A i \in 1..Len(ireqs) :
            (ireqs[i].pc # "json" /\ ireqs[i].body.isdict /\ ireqs[i].body.manifest.isdict) =>
                /\ Cardinality(EntriesOf(i)) = 1
                /\ \A k \in EntriesOf(i) :
                        /\ stored[k].id = ireqs[i].manifestId
                        /\ stored[k].manifest = ireqs[i].body.manifest
                        /\ Len(stored) - k < _MAX_ITEMS =>
                                MANIFESTS[Len(MANIFESTS) - (Len(stored) - k)] =
                                    << ireqs[i].manifestId, ireqs[i].body.manifest >>
                        /\ k = Len(stored) =>
                                get_last_manifest(MANIFESTS) =
                                    [status |-> StatusOk,
                                     manifestId |-> ireqs[i].manifestId,
                                     manifest |-> ireqs[i].body.manifest]

\* reached: one request ended in 401 and one in 502, both manifests are in the
\* store, and GET /manifest/last has answered with the manifest of the later
C30_Witness ==
    /\ call = "ingest"
    /\ \E i, j \in 1..Len(ireqs) :
            /\ ireqs[i].pc = "done" /\ ireqs[i].status = 401
            /\ ireqs[j].pc = "done" /\ ireqs[j].status = 502
            /\ EntriesOf(i) # {} /\ EntriesOf(j) # {}
            /\ last.n = Len(stored)
            /\ last.answer.status = StatusOk
            /\ last.answer.manifestId \in { ireqs[i].manifestId, ireqs[j].manifestId }
            /\ last.answer.manifestId = Len(stored)

\* the token of the first non-empty source in the order session
\* (access_token, then token), request.state, bearer header, cookie
BearerToken(auth) ==
    IF StartsWith(Lower(auth), "bearer ") THEN SubSeq(auth, 8, Len(auth)) ELSE ""

RECURSIVE FirstNonEmpty(_)
FirstNonEmpty(q) ==
    IF q = << >> THEN ""
    ELSE IF q[1] # "" THEN q[1] ELSE FirstNonEmpty(Tail(q))

TokenInOrder(t) ==
    FirstNonEmpty(<< t.session_access_token, t.session_token, t.state,
                     BearerToken(t.Authorization), t.cookie >>)

\* the token part of C27: every workflow request carries the first non-empty
\* token of the lookup order, and a request without any token ends with 401
\* and sends nothing
TokenBeforeWorkflow ==
    /\ \A k \in 1..Len(wfcalls) :
            /\ wfcalls[k].access_token # ""
            /\ wfcalls[k].access_token = TokenInOrder(ireqs[wfcalls[k].req].creds)
    /\ \A i \in 1..Len(ireqs) :
            (ireqs[i].pc # "json" /\ ireqs[i].body.manifest.isdict
                    /\ TokenInOrder(ireqs[i].creds) = "") =>
                (ireqs[i].status = 401 /\ CallsOf(i) = {})

\* C27: POST /manifest/ingest never calls the workflow service without an
\* access token (looked up in the order session, request.state, bearer header,
\* cookie; the first non-empty one is used; none: 401 and no workflow
\* request), and a body without a manifest object ends with 400, stores
\* nothing and sends nothing
C27_TokenOr401ManifestOr400 ==
    call = "ingest" =>
        /\ TokenBeforeWorkflow
        /\ \A i \in 1..Len(ireqs) :
                (ireqs[i].pc # "json" /\ ~ireqs[i].body.manifest.isdict) =>
                    (ireqs[i].status = 400 /\ EntriesOf(i) = {} /\ CallsOf(i) = {})

(***************************************************************************)
(* auth.py: /login, /login/auto, /auth/callback, /logout                   *)
(***************************************************************************)
\* how many authorization codes a behaviour exchanges
MaxExchanges == 2

\* URLSafeSerializer(SECRET_KEY, salt): dumps appends to the payload the MAC
\* only the holder of SECRET_KEY computes; loads gives the payload back if the
\* MAC is the payload's, else it raises BadSignature
Mac(payload) == "hmac(" \o payload \o ")"
ser_dumps(payload) == payload \o "." \o Mac(payload)
ser_loads(signed) ==
    LET i == Find(signed, ".")
        payload == SubSeq(signed, 1, i - 1)
    IN  IF i # 0 /\ SubSeq(signed, i + 1, Len(signed)) = Mac(payload)
        THEN [ok |-> TRUE, payload |-> payload]
        ELSE [ok |-> FALSE, payload |-> ""]

\* login lines 98-103: the state payload {cv, next} (the time stamp left out)
state_payload(cv, next) == "cv=" \o cv \o "&next=" \o (IF next = "" THEN "/" ELSE next)

\* st.get("next") or "/" of a loaded state payload
next_of(payload) ==
    LET i == Find(payload, "&next=")
        n == SubSeq(payload, i + 6, Len(payload))
    IN  IF i = 0 \/ n = "" THEN "/" ELSE n

\* what a handler did: where it redirects (status 302), or status 500 of an
\* exception no handler catches; the cookies it sets ("" for none) and deletes
Did(handler, status, location, set_state, set_tokens, del_state, del_tokens, exchanged) ==
    [handler |-> handler, status |-> status, location |-> location,
     set_state |-> set_state, set_tokens |-> set_tokens,
     del_state |-> del_state, del_tokens |-> del_tokens, exchanged |-> exchanged]

Redirect(handler, location) == Did(handler, 302, location, "", "", FALSE, FALSE, FALSE)

\* login lines 91-118
login(cfg, cv, next) ==
    IF ~cfg THEN Redirect("login", "/auth?e=cfg")
    ELSE Did("login", 302, "AUTHZ_URL", ser_dumps(state_payload(cv, next)), "",
             FALSE, FALSE, FALSE)

\* login_auto lines 121-130; env_tokens: what tokens_from_env gave ("" for None)
login_auto(env_tokens, next) ==
    IF env_tokens = "" THEN Redirect("login_auto", "/auth?e=noenv")
    ELSE Did("login_auto", 302, IF next = "" THEN "/" ELSE next, "",
             ser_dumps(env_tokens), TRUE, FALSE, FALSE)

\* callback without the comparison of the state parameter with the cookie
callback_no_state_check(code, state_param, state_cookie, token) ==
    IF code = "" \/ state_cookie = "" THEN Redirect("callback", "/auth?e=missing")
    ELSE IF ~ser_loads(state_cookie).ok THEN Redirect("callback", "/auth?e=state")
    ELSE IF token = "" THEN Did("callback", 500, "", "", "", FALSE, FALSE, TRUE)
    ELSE Did("callback", 302, next_of(ser_loads(state_cookie).payload), "",
             ser_dumps(token), TRUE, FALSE, TRUE)

\* callback lines 133-171. code and state_param are the query parameters
\* ("" for None), state_cookie the oidc_state cookie of the request, token
\* what fetch_token gives ("": it raises, which nothing catches)
callback(code, state_param, state_cookie, token) ==
    IF code = "" \/ state_cookie = "" THEN Redirect("callback", "/auth?e=missing")
    ELSE IF state_param = "" \/ state_param # state_cookie
    THEN Redirect("callback", "/auth?e=state")
    ELSE IF ~ser_loads(state_cookie).ok THEN Redirect("callback", "/auth?e=state")
    ELSE IF token = "" THEN Did("callback", 500, "", "", "", FALSE, FALSE, TRUE)
    ELSE Did("callback", 302, next_of(ser_loads(state_cookie).payload), "",
             ser_dumps(token), TRUE, FALSE, TRUE)

\* logout lines 174-178
logout == Did("logout", 302, "/", "", "", FALSE, TRUE, FALSE)

\* the browser's cookies after a response
JarAfter(did) ==
    [oidc_state |-> IF did.del_state THEN ""
                    ELSE IF did.set_state # "" THEN did.set_state ELSE jar.oidc_state,
     oidc_tokens |-> IF did.del_tokens THEN ""
                     ELSE IF did.set_tokens # "" THEN did.set_tokens ELSE jar.oidc_tokens]

\* a request was handled: req is what it carried, did what the handler did
Handled(req, did) ==
    /\ call = "auth"
    /\ alog' = [req |-> req, did |-> did, tokens_before |-> jar.oidc_tokens]
    /\ jar' = JarAfter(did)
    /\ exchanges' = IF did.exchanged THEN exchanges + 1 ELSE exchanges
    /\ UNCHANGED oidc_cfg
    /\ UNCHANGED << call, envVars, bfsVars, gatherVars, buildVars, handlerVars >>
    /\ UNCHANGED << dedupVars, paramVars, normVars, linkVars >>
    /\ UNCHANGED << depth_given, fetchVars, ingestVars >>

Req(code, state_param, state_cookie) ==
    [code |-> code, state_param |-> state_param, state_cookie |-> state_cookie]

Login ==
    call = "auth" /\ \E cv \in { "v1", "v2" }, next \in { "", "/ds" } :
        Handled(Req("", "", jar.oidc_state), login(oidc_cfg, cv, next))

LoginAuto ==
    call = "auth" /\ \E env_tokens \in { "", "access_token=envAT" } :
        Handled(Req("", "", jar.oidc_state), login_auto(env_tokens, ""))

\* a state value not made by this server, and one with a payload changed
\* under the MAC of another
ForgedState == "cv=evil&next=/evil.forged"
TamperedState == "cv=evil&next=/evil." \o Mac(state_payload("v1", ""))

\* the callback is requested with the cookie of the jar, with none, or with
\* one the client made up, and with any state parameter
Callback ==
    call = "auth" /\ \E code \in { "", "code1" },
        state_cookie \in { jar.oidc_state, "", ForgedState, TamperedState },
        state_param \in { jar.oidc_state, "", ForgedState, TamperedState,
                          ser_dumps(state_payload("v2", "/ds")) },
        token \in { "", "access_token=AT1" } :
            LET did == callback(code, state_param, state_cookie, token)
            IN  /\ did.exchanged => exchanges < MaxExchanges
                /\ ~did.exchanged => token = ""
                /\ Handled(Req(code, state_param, state_cookie), did)

Logout == call = "auth" /\ Handled(Req("", "", jar.oidc_state), logout)

InitAuth ==
    /\ call = "auth"
    /\ oidc_cfg \in BOOLEAN
    /\ jar = [oidc_state |-> "", oidc_tokens |-> ""]
    /\ alog = [req |-> Req("", "", ""), did |-> Redirect("none", ""), tokens_before |-> ""]
    /\ exchanges = 0
    /\ EnvIdle /\ BfsIdle /\ GatherIdle /\ BuildIdle /\ HandlerIdle /\ DedupIdle
    /\ ParamIdle /\ NormIdle /\ LinkIdle
    /\ depth_given = FALSE /\ FetchIdle /\ IngestIdle

NextAuth == Login \/ LoginAuto \/ Callback \/ Logout

SpecAuth == InitAuth /\ [][NextAuth]_vars

\* the four conditions of the callback on what the request carried
CallbackConditions(req) ==
    /\ req.code # ""
    /\ req.state_cookie # ""
    /\ req.state_param = req.state_cookie
    /\ ser_loads(req.state_cookie).ok

\* C29: the callback sets the oidc_tokens cookie only when a code is present,
\* an oidc_state cookie is present, the state parameter equals that cookie and
\* the cookie's signature verifies; in every other case it redirects to /auth
\* with an error code, exchanges no code and sets no token cookie; a
\* successful callback deletes the oidc_state cookie
C29_TokensOnlyAfterStateVerified ==
    (call = "auth" /\ alog.did.handler = "callback") =>
        /\ alog.did.set_tokens # "" => CallbackConditions(alog.req)
        /\ ~CallbackConditions(alog.req) =>
                /\ alog.did.status = 302
                /\ StartsWith(alog.did.location, "/auth?e=")
                /\ ~alog.did.exchanged
                /\ alog.did.set_tokens = ""
                /\ jar.oidc_tokens = alog.tokens_before
        /\ alog.did.set_tokens # "" =>
                (alog.did.del_state /\ jar.oidc_state = ""
                    /\ jar.oidc_tokens = alog.did.set_tokens)

\* reached: after a login the callback came with the code and the state of
\* the cookie, the code was exchanged, the token cookie is set and the state
\* cookie is gone
C29_Witness ==
    /\ call = "auth"
    /\ alog.did.handler = "callback"
    /\ alog.req.code # "" /\ alog.req.state_cookie # ""
    /\ alog.req.state_param = alog.req.state_cookie
    /\ alog.did.exchanged /\ alog.did.set_tokens # ""
    /\ alog.did.location = "/ds"
    /\ jar.oidc_state = "" /\ jar.oidc_tokens # ""
    /\ exchanges = 2

====
